---- MODULE Spec2Model ----
(***************************************************************************)
(* openclaw-pageindex: the reasoning search engine (searchWithLLM with its *)
(* keyword fallback), the excerpt rule and the plain-text parser that      *)
(* builds the forests the engine searches.                                 *)
(*                                                                         *)
(* A JavaScript string is a sequence of one-character strings, so that     *)
(* split, trim, startsWith, includes, lastIndexOf and substring are        *)
(* computed character by character.  An absent (undefined) string is the   *)
(* value Undefined; an absent number is the empty set and a present number *)
(* n is the set {n}.                                                       *)
(***************************************************************************)
EXTENDS Integers, Sequences, FiniteSets, TLC

\* ------------------------------------------------------------------ bounds

\* Largest number of lines of an LLM response.
MaxLines == 3

\* Largest explicit query.maxResults.
MaxMaxResults == 1

\* Number of filler characters that pad the long contents of the excerpt runs.
MaxExtra == 3

\* ------------------------------------------------------- program constants

DefaultMaxResults == 10
ExcerptCap == 200
NodeContentCap == 500
ContextCap == 15000
CharsPerSection == 5000
LLMRelevanceNum == 8
LLMRelevanceDen == 10

\* ------------------------------------------------------------ JS strings

Undefined == <<"undefined">>

WhiteSpace == {" ", "\t", "\n", "\r", "\f"}

UpperChars ==
  <<"A","B","C","D","E","F","G","H","I","J","K","L","M",
    "N","O","P","Q","R","S","T","U","V","W","X","Y","Z">>

LowerChars ==
  <<"a","b","c","d","e","f","g","h","i","j","k","l","m",
    "n","o","p","q","r","s","t","u","v","w","x","y","z">>

Digits == <<"0","1","2","3","4","5","6","7","8","9">>

Range(s) == {s[i] : i \in DOMAIN s}

AlphaNumeric == Range(UpperChars) \cup Range(LowerChars) \cup Range(Digits)

Min(a, b) == IF a < b THEN a ELSE b

Max(a, b) == IF a > b THEN a ELSE b

\* String.prototype.toLowerCase, one character
LowerChar(c) ==
  IF c \in Range(UpperChars)
    THEN LowerChars[CHOOSE i \in DOMAIN UpperChars : UpperChars[i] = c]
    ELSE c

\* String.prototype.toLowerCase
toLowerCase(s) == [i \in DOMAIN s |-> LowerChar(s[i])]

\* String.prototype.trim
trim(s) ==
  LET keep == {i \in DOMAIN s : s[i] \notin WhiteSpace}
  IN IF keep = {} THEN <<>>
     ELSE SubSeq(s, CHOOSE i \in keep : \A j \in keep : i <= j,
                    CHOOSE i \in keep : \A j \in keep : i >= j)

\* String.prototype.startsWith
startsWith(s, p) == Len(s) >= Len(p) /\ SubSeq(s, 1, Len(p)) = p

\* String.prototype.includes
includes(s, sub) ==
  \E i \in 0..(Len(s) - Len(sub)) : SubSeq(s, i + 1, i + Len(sub)) = sub

\* String.prototype.substring(a, b), 0-based, end exclusive, arguments clamped
substring(s, a, b) ==
  LET ca == Max(0, Min(a, Len(s)))
      cb == Max(0, Min(b, Len(s)))
  IN SubSeq(s, Min(ca, cb) + 1, Max(ca, cb))

\* String.prototype.lastIndexOf(c, from) for a one-character c: the greatest
\* 0-based index <= from that holds c, or -1
lastIndexOf(s, c, from) ==
  LET hits == {i \in 0..Min(from, Len(s) - 1) : s[i + 1] = c}
  IN IF hits = {} THEN -1 ELSE CHOOSE i \in hits : \A j \in hits : i >= j

\* String.prototype.split(c) for a one-character separator c
RECURSIVE split(_, _)
split(s, c) ==
  LET hits == {i \in DOMAIN s : s[i] = c}
  IN IF hits = {} THEN <<s>>
     ELSE LET i == CHOOSE i \in hits : \A j \in hits : i <= j
          IN <<SubSeq(s, 1, i - 1)>> \o split(SubSeq(s, i + 1, Len(s)), c)

\* String.prototype.split(/\s+/): a maximal run of white space is one separator
RECURSIVE splitWhiteSpace(_)
splitWhiteSpace(s) ==
  LET hits == {i \in DOMAIN s : s[i] \in WhiteSpace}
  IN IF hits = {} THEN <<s>>
     ELSE LET i == CHOOSE i \in hits : \A j \in hits : i <= j
              after == {j \in (i + 1)..Len(s) : s[j] \notin WhiteSpace}
              k == IF after = {} THEN Len(s) + 1
                   ELSE CHOOSE j \in after : \A m \in after : j <= m
          IN <<SubSeq(s, 1, i - 1)>> \o splitWhiteSpace(SubSeq(s, k, Len(s)))

\* Array.prototype.join(c) of strings
RECURSIVE join(_, _)
join(parts, c) ==
  IF Len(parts) = 0 THEN <<>>
  ELSE IF Len(parts) = 1 THEN parts[1]
  ELSE parts[1] \o c \o join(Tail(parts), c)

\* String(n) for a non-negative integer n
RECURSIVE numberToString(_)
numberToString(n) ==
  IF n < 10 THEN <<Digits[n + 1]>>
  ELSE numberToString(n \div 10) \o <<Digits[(n % 10) + 1]>>

\* String.prototype.repeat
RECURSIVE repeat(_, _)
repeat(s, n) == IF n <= 0 THEN <<>> ELSE s \o repeat(s, n - 1)

\* a string is truthy when it is defined and not empty
Truthy(s) == s # Undefined /\ s # <<>>

\* ------------------------------------------------------------- parsers

\* the k-th reading of Date.now() during one parse; clk is the
\* non-decreasing list of readings, the last one repeating
DateNow(clk, k) == clk[Min(k, Len(clk))]

\* generateId without the seed
generateId_NoSeed(seed, now) == <<"n","o","d","e","-">> \o numberToString(now)

\* generateId: `node-${seed.replace(/[^a-zA-Z0-9]/g, "-")}-${Date.now()}`
generateId(seed, now) ==
  <<"n","o","d","e","-">>
    \o [i \in DOMAIN seed |-> IF seed[i] \in AlphaNumeric THEN seed[i] ELSE "-"]
    \o <<"-">> \o numberToString(now)

\* a DocumentNode; parent is the index of the owning node in the tree's
\* node list (0 for the root), which stands for the children arrays
DocumentNode(id, type, title, content, level, pageNumber, parent, charCount, wordCount, position) ==
  [id |-> id, type |-> type, title |-> title, content |-> content,
   level |-> level, pageNumber |-> pageNumber, parent |-> parent,
   metadata |-> [charCount |-> charCount, wordCount |-> wordCount,
                 position |-> position]]

\* the paragraph node parseText pushes for the accumulated text
paragraphNode(currentParagraph, position, now) ==
  DocumentNode(
    generateId(<<"p","a","r","a","g","r","a","p","h","-">> \o numberToString(position), now),
    "paragraph", Undefined, trim(currentParagraph), 1, {}, 1,
    Len(currentParagraph), Len(splitWhiteSpace(currentParagraph)), position)

\* the loop of parseText over the lines; st is [children, position,
\* currentParagraph]
RECURSIVE parseTextLines(_, _, _)
parseTextLines(lines, st, clk) ==
  IF lines = <<>> THEN st
  ELSE
    LET line == Head(lines)
        next ==
          IF trim(line) = <<>>
            THEN IF trim(st.currentParagraph) # <<>>
                   THEN [children |-> Append(st.children,
                           paragraphNode(st.currentParagraph, st.position,
                                         DateNow(clk, Len(st.children) + 1))),
                         position |-> st.position + Len(st.currentParagraph),
                         currentParagraph |-> <<>>]
                   ELSE st
            ELSE [st EXCEPT !.currentParagraph = @ \o line \o <<" ">>]
    IN parseTextLines(Tail(lines), next, clk)

\* parseText: the tree as the list of its nodes, root first
parseText(content, clk) ==
  LET root == DocumentNode(<<"r","o","o","t">>, "root", Undefined, content, 0, {}, 0,
                           Len(content), Len(splitWhiteSpace(content)), 0)
      st == parseTextLines(split(content, "\n"),
              [children |-> <<>>, position |-> 0, currentParagraph |-> <<>>], clk)
      final ==
        IF trim(st.currentParagraph) # <<>>
          THEN Append(st.children,
                 paragraphNode(st.currentParagraph, st.position,
                               DateNow(clk, Len(st.children) + 1)))
          ELSE st.children
  IN <<root>> \o final

\* the number of leading characters of s that lie in set
leadingCount(s, set) ==
  CHOOSE k \in 0..Len(s) :
    /\ \A i \in 1..k : s[i] \in set
    /\ k < Len(s) => s[k + 1] \notin set

\* the characters "." does not match
LineTerminators == {"\n", "\r"}

\* line.match(/^(#{1,6})\s+(.+)$/): whether it matched, the length of
\* group 1 and group 2 (the greedy \s+ takes the longest run that leaves
\* group 2 one character or more)
headingMatch(line) ==
  LET hashes == leadingCount(line, {"#"})
      rest == SubSeq(line, hashes + 1, Len(line))
      spaces == leadingCount(rest, WhiteSpace)
      takes == {j \in 1..spaces :
                  /\ Len(rest) - j >= 1
                  /\ \A i \in (j + 1)..Len(rest) : rest[i] \notin LineTerminators}
  IN IF hashes \in 1..6 /\ takes # {}
       THEN LET j == CHOOSE t \in takes : \A u \in takes : t >= u
            IN [matched |-> TRUE, level |-> hashes,
                group2 |-> SubSeq(rest, j + 1, Len(rest))]
       ELSE [matched |-> FALSE, level |-> 0, group2 |-> <<>>]

\* contentNode with the position counted from the heading it stands under
contentNode_CountsFromZero(currentContent, position, top, now) ==
  DocumentNode(
    generateId(<<"c","o","n","t","e","n","t","-">> \o numberToString(position), now),
    "paragraph", Undefined, trim(currentContent), top.level + 1, {}, top.node,
    Len(currentContent), Len(splitWhiteSpace(currentContent)), 0)

\* the paragraph node parseMarkdown pushes for the accumulated text, under
\* the node on top of the stack
contentNode(currentContent, position, top, now) ==
  DocumentNode(
    generateId(<<"c","o","n","t","e","n","t","-">> \o numberToString(position), now),
    "paragraph", Undefined, trim(currentContent), top.level + 1, {}, top.node,
    Len(currentContent), Len(splitWhiteSpace(currentContent)), position)

\* the heading node parseMarkdown pushes under the node on top of the stack
headingNode(line, level, title, position, top, now) ==
  DocumentNode(
    generateId(<<"h","e","a","d","i","n","g","-">> \o numberToString(position), now),
    "section", title, line, level, {}, top.node,
    Len(line), Len(splitWhiteSpace(line)), position)

\* the loop "while top.level >= level: stack.pop()" with > in place of >=
RECURSIVE popStack_KeepsEqualLevel(_, _)
popStack_KeepsEqualLevel(stack, level) ==
  IF Len(stack) > 0 /\ stack[Len(stack)].level > level
    THEN popStack_KeepsEqualLevel(SubSeq(stack, 1, Len(stack) - 1), level)
    ELSE stack

\* pop the stack until the parent level is on top
RECURSIVE popStack(_, _)
popStack(stack, level) ==
  IF Len(stack) > 0 /\ stack[Len(stack)].level >= level
    THEN popStack(SubSeq(stack, 1, Len(stack) - 1), level)
    ELSE stack

\* the accumulated content saved as a paragraph under the top of the stack,
\* when it is more than white space; st is [nodes, stack, currentContent,
\* position]
saveContent(st, clk) ==
  IF trim(st.currentContent) # <<>>
    THEN [st EXCEPT
            !.nodes = Append(@, contentNode(st.currentContent, st.position,
                                st.stack[Len(st.stack)],
                                DateNow(clk, Len(st.nodes)))),
            !.position = @ + Len(st.currentContent),
            !.currentContent = <<>>]
    ELSE st

\* the loop of parseMarkdown over the lines
RECURSIVE parseMarkdownLines(_, _, _)
parseMarkdownLines(lines, st, clk) ==
  IF lines = <<>> THEN st
  ELSE
    LET line == Head(lines)
        m == headingMatch(line)
        saved == saveContent(st, clk)
        popped == popStack(saved.stack, m.level)
        heading == headingNode(line, m.level, trim(m.group2), saved.position,
                               popped[Len(popped)], DateNow(clk, Len(saved.nodes)))
        next ==
          IF m.matched
            THEN [nodes |-> Append(saved.nodes, heading),
                  stack |-> Append(popped, [node |-> Len(saved.nodes) + 1,
                                            level |-> m.level]),
                  currentContent |-> saved.currentContent,
                  position |-> saved.position + Len(line) + 1]
            ELSE [st EXCEPT !.currentContent = @ \o line \o <<"\n">>]
    IN parseMarkdownLines(Tail(lines), next, clk)

\* parseMarkdown: the tree as the list of its nodes, root first; the
\* remaining content is saved under the last top of the stack
parseMarkdown(content, clk) ==
  LET root == DocumentNode(<<"r","o","o","t">>, "root", Undefined, content, 0, {}, 0,
                           Len(content), Len(splitWhiteSpace(content)), 0)
      st == parseMarkdownLines(split(content, "\n"),
              [nodes |-> <<root>>, stack |-> <<[node |-> 1, level |-> 0]>>,
               currentContent |-> <<>>, position |-> 0], clk)
  IN saveContent(st, clk).nodes

\* ------------------------------------------------------ the HTML parser

\* const headings = ["h1", "h2", "h3", "h4", "h5", "h6"]
htmlHeadings == {<<"h", d>> : d \in {"1", "2", "3", "4", "5", "6"}}

\* parseInt of one digit
parseIntDigit(c) == CHOOSE n \in 0..9 : numberToString(n) = <<c>>

\* the heading node parseHTML pushes under the node on top of the stack
htmlHeadingNode(text, level, position, top, now) ==
  DocumentNode(
    generateId(<<"h","e","a","d","i","n","g","-">> \o numberToString(position), now),
    "section", text, text, level, {}, top.node,
    Len(text), Len(splitWhiteSpace(text)), position)

\* the paragraph node parseHTML pushes for a p or a div
pNode(text, position, top, now) ==
  DocumentNode(
    generateId(<<"c","o","n","t","e","n","t","-">> \o numberToString(position), now),
    "paragraph", Undefined, text, top.level + 1, {}, top.node,
    Len(text), Len(splitWhiteSpace(text)), position)

\* the heading is pushed under the node the popped stack ends with; st is
\* [nodes, stack, position]
pushHeading(st, text, level, popped, clk) ==
  [nodes |-> Append(st.nodes,
                    htmlHeadingNode(text, level, st.position, popped[Len(popped)],
                                    DateNow(clk, Len(st.nodes)))),
   stack |-> Append(popped, [node |-> Len(st.nodes) + 1, level |-> level]),
   position |-> st.position + Len(text)]

\* the callback of $("body").find("*").each for one element, [tagName, text]:
\* an element without text is passed over, and so is one that is neither a
\* heading nor a p nor a div
eachElement(st, tagName, text, clk) ==
  IF text = <<>> THEN st
  ELSE IF tagName \in htmlHeadings
    THEN pushHeading(st, text, parseIntDigit(tagName[2]),
                     popStack(st.stack, parseIntDigit(tagName[2])), clk)
  ELSE IF tagName \in {<<"p">>, <<"d","i","v">>}
    THEN [st EXCEPT
            !.nodes = Append(@, pNode(text, st.position, st.stack[Len(st.stack)],
                                      DateNow(clk, Len(st.nodes)))),
            !.position = @ + Len(text)]
  ELSE st

\* the elements of the body in document order, as cheerio hands them over
RECURSIVE parseHTMLElements(_, _, _)
parseHTMLElements(elements, st, clk) ==
  IF elements = <<>> THEN st
  ELSE parseHTMLElements(Tail(elements),
                         eachElement(st, toLowerCase(Head(elements).tagName),
                                     trim(Head(elements).text), clk),
                         clk)

\* parseHTML on the document cheerio loaded, [text, elements]: the tree as
\* the list of its nodes, root first
parseHTML(doc, clk) ==
  parseHTMLElements(doc.elements,
    [nodes |-> <<DocumentNode(<<"r","o","o","t">>, "root", Undefined, doc.text, 0, {}, 0,
                              Len(doc.text), Len(splitWhiteSpace(doc.text)), 0)>>,
     stack |-> <<[node |-> 1, level |-> 0]>>,
     position |-> 0], clk).nodes

\* ------------------------------------------------------- the PDF parser

UpperChar(c) ==
  IF \E i \in DOMAIN LowerChars : LowerChars[i] = c
    THEN UpperChars[CHOOSE i \in DOMAIN LowerChars : LowerChars[i] = c]
    ELSE c

toUpperCase(s) == [i \in DOMAIN s |-> UpperChar(s[i])]

\* the length of the run of characters of set that starts at position p
runFrom(s, p, set) == leadingCount(SubSeq(s, p, Len(s)), set)

RomanDigits == {"I", "V", "X", "L", "C", "D", "M"}

\* the chapter patterns, in the order they are tried: the keyword, whether
\* the i flag is set, and the class of the characters of the number
chapterPatterns ==
  << [keyword |-> <<"C","H","A","P","T","E","R">>, i |-> TRUE, class |-> RomanDigits],
     [keyword |-> <<"C","h","a","p","t","e","r">>, i |-> TRUE, class |-> Range(Digits)],
     [keyword |-> <<"#">>, i |-> FALSE, class |-> Range(UpperChars)],
     [keyword |-> <<"P","a","r","t">>, i |-> TRUE, class |-> RomanDigits] >>

\* the character c lies in the class of the pattern
inClass(pattern, c) ==
  IF pattern.i THEN UpperChar(c) \in {UpperChar(d) : d \in pattern.class}
  ELSE c \in pattern.class

\* the position after the match of /\n\s*KEYWORD\s+CLASS+\n/ that starts at
\* position p, or 0 when there is none; the third pattern is
\* /\n\s*#\s+[A-Z][A-Z\s]+\n/, whose last group can run over line ends and
\* gives back to the last "\n" it holds
matchEnd(s, p, k) ==
  LET pattern == chapterPatterns[k]
      kw == p + 1 + runFrom(s, p + 1, WhiteSpace)
      word == SubSeq(s, kw, kw + Len(pattern.keyword) - 1)
      sp == kw + Len(pattern.keyword)
      spaces == runFrom(s, sp, WhiteSpace)
      cl == sp + spaces
      plain == runFrom(s, cl, {c \in Range(s) : inClass(pattern, c)})
      mixed == runFrom(s, cl + 1, Range(UpperChars) \cup WhiteSpace)
      ends == {r \in 1..(mixed - 1) : s[cl + 1 + r] = "\n"}
  IN IF /\ p <= Len(s) /\ s[p] = "\n"
        /\ kw + Len(pattern.keyword) - 1 <= Len(s)
        /\ IF pattern.i THEN toUpperCase(word) = toUpperCase(pattern.keyword)
           ELSE word = pattern.keyword
        /\ spaces >= 1
       THEN IF k = 3
              THEN IF cl <= Len(s) /\ s[cl] \in Range(UpperChars) /\ ends # {}
                     THEN cl + 1 + (CHOOSE r \in ends : \A q \in ends : r >= q) + 1
                     ELSE 0
              ELSE IF plain >= 1 /\ cl + plain <= Len(s) /\ s[cl + plain] = "\n"
                     THEN cl + plain + 1
                     ELSE 0
       ELSE 0

\* split.split(pattern): the pieces between the matches, from position
\* start on, the matches being looked for from left to right
RECURSIVE splitPattern(_, _, _)
splitPattern(s, k, start) ==
  LET hits == {p \in start..Len(s) : matchEnd(s, p, k) # 0}
  IN IF hits = {} THEN <<SubSeq(s, start, Len(s))>>
     ELSE LET p == CHOOSE h \in hits : \A g \in hits : h <= g
          IN <<SubSeq(s, start, p - 1)>> \o splitPattern(s, k, matchEnd(s, p, k))

\* strategy 3: the split of the first pattern that splits, the whole text
\* when none does
RECURSIVE splitByChapters(_, _)
splitByChapters(text, k) ==
  IF k > Len(chapterPatterns) THEN <<text>>
  ELSE IF Len(splitPattern(text, k, 1)) > 1 THEN splitPattern(text, k, 1)
  ELSE splitByChapters(text, k + 1)

\* strategy 2: numpages slices of floor(length / numpages) characters
splitByPageCount(text, numpages) ==
  LET avgCharsPerPage == Len(text) \div numpages
  IN [i \in 1..numpages |->
        substring(text, (i - 1) * avgCharsPerPage, i * avgCharsPerPage)]

\* the re-split of a text that came out as one piece: the lines are gathered
\* into sections that close once they hold charsPerSection characters; st is
\* [pageTexts, current, currentSectionChars]
RECURSIVE splitBySize(_, _)
splitBySize(lines, st) ==
  IF lines = <<>>
    THEN IF trim(st.current) # <<>>
           THEN Append(st.pageTexts, trim(st.current))
           ELSE st.pageTexts
  ELSE
    LET current == st.current \o Head(lines) \o <<"\n">>
        chars == st.currentSectionChars + Len(Head(lines)) + 1
    IN splitBySize(Tail(lines),
         IF chars >= CharsPerSection
           THEN [pageTexts |-> Append(st.pageTexts, trim(current)),
                 current |-> <<>>, currentSectionChars |-> 0]
           ELSE [pageTexts |-> st.pageTexts, current |-> current,
                 currentSectionChars |-> chars])

\* "if still only one page": one piece longer than a section is split by size
resplit(text, pageTexts) ==
  IF Len(pageTexts) = 1 /\ Len(pageTexts[1]) > CharsPerSection
    THEN splitBySize(split(text, "\n"),
           [pageTexts |-> <<>>, current |-> <<>>, currentSectionChars |-> 0])
    ELSE pageTexts

\* pageTextsOf with the page count tried before the form feeds
pageTextsOf_PageCountFirst(text, numpages) ==
  IF numpages > 1 THEN splitByPageCount(text, numpages)
  ELSE IF includes(text, <<"\f">>) THEN split(text, "\f")
  ELSE splitByChapters(text, 1)

\* the page texts of a PDF: form feeds first, then the page count, then the
\* chapter headings, and the split by size when one long piece is left
pageTextsOf(text, numpages) ==
  resplit(text,
          IF includes(text, <<"\f">>) THEN split(text, "\f")
          ELSE IF numpages > 1 THEN splitByPageCount(text, numpages)
          ELSE splitByChapters(text, 1))

\* /^(CHAPTER|Chapter|Part|#|\d+\.)\s+/.test(trimmed)
numberedHeading(trimmed) ==
  LET digits == leadingCount(trimmed, Range(Digits))
      words == {<<"C","H","A","P","T","E","R">>, <<"C","h","a","p","t","e","r">>,
                <<"P","a","r","t">>, <<"#">>}
      after == {Len(w) + 1 : w \in {w \in words : startsWith(trimmed, w)}}
                 \cup (IF digits >= 1 /\ digits < Len(trimmed) /\ trimmed[digits + 1] = "."
                         THEN {digits + 2} ELSE {})
  IN \E a \in after : a <= Len(trimmed) /\ trimmed[a] \in WhiteSpace

\* the title of a section: the first of its first five lines that looks like
\* a heading, "Section <index + 1>" when none does
sectionTitle(pageText, index) ==
  LET all == split(trim(pageText), "\n")
      lines == SubSeq(all, 1, Min(5, Len(all)))
      hits == {l \in DOMAIN lines :
                 LET trimmed == trim(lines[l])
                 IN /\ Len(trimmed) > 3 /\ Len(trimmed) < 100
                    /\ \/ trimmed = toUpperCase(trimmed)
                       \/ numberedHeading(trimmed)}
  IN IF hits = {}
       THEN <<"S","e","c","t","i","o","n"," ">> \o numberToString(index + 1)
       ELSE trim(lines[CHOOSE l \in hits : \A h \in hits : l <= h])

\* the section node of the page text at the 0-based index
sectionNode(pageText, index, position) ==
  DocumentNode(
    <<"s","e","c","t","i","o","n","-">> \o numberToString(index + 1),
    "section", sectionTitle(pageText, index), trim(pageText), 1, {index + 1}, 1,
    Len(pageText), Len(splitWhiteSpace(pageText)), position)

\* pageTexts.forEach: the page texts that are white space only are skipped
RECURSIVE sectionNodes(_, _, _)
sectionNodes(pageTexts, index, position) ==
  IF index >= Len(pageTexts) THEN <<>>
  ELSE LET pageText == pageTexts[index + 1]
       IN IF Len(trim(pageText)) = 0
            THEN sectionNodes(pageTexts, index + 1, position)
            ELSE <<sectionNode(pageText, index, position)>>
                   \o sectionNodes(pageTexts, index + 1, position + Len(pageText))

\* the tree parsePDF builds of the page texts: the list of its nodes, root
\* first
parsePDFOf(data, pageTexts) ==
  <<DocumentNode(<<"r","o","o","t">>, "root", Undefined, data.text, 0, {}, 0,
                 Len(data.text), Len(splitWhiteSpace(data.text)), 0)>>
    \o sectionNodes(pageTexts, 0, 0)

\* parsePDF on what pdf-parse extracted, data = [text, numpages] (numpages 0
\* stands for an absent count)
parsePDF(data) == parsePDFOf(data, pageTextsOf(data.text, data.numpages))

\* ---------------------------------------------------- the tree as arrays

\* the absent node (null)
Null == [t |-> 0, i |-> 0]

\* a node of the forest: tree t of documents, node i of that tree
NodeAt(documents, r) == documents[r.t][r.i]

\* node.children: the nodes owned by r, in insertion order
RECURSIVE childrenFrom(_, _, _)
childrenFrom(tree, i, j) ==
  IF j > Len(tree) THEN <<>>
  ELSE (IF tree[j].parent = i THEN <<j>> ELSE <<>>) \o childrenFrom(tree, i, j + 1)

children(documents, r) ==
  LET kids == childrenFrom(documents[r.t], r.i, 1)
  IN [k \in DOMAIN kids |-> [t |-> r.t, i |-> kids[k]]]

\* the documents array itself: the root of every tree
roots(documents) == [t \in DOMAIN documents |-> [t |-> t, i |-> 1]]

\* --------------------------------------------------- context serializer

IdOpen == <<"[","I","D",":"," ">>

Ellipsis == <<".",".",".">>

\* flattenNode(node, depth)
RECURSIVE flattenNode(_, _, _)
RECURSIVE flattenNodes(_, _, _)
flattenNode(documents, r, depth) ==
  LET node == NodeAt(documents, r)
      indent == repeat(<<" "," ">>, depth)
      head == indent \o IdOpen \o node.id \o <<"]">>
      titled == IF Truthy(node.title)
                  THEN head \o <<" ">> \o repeat(<<"#">>, node.level) \o <<" ">>
                         \o node.title \o <<"\n">>
                  ELSE head \o <<"\n">>
      body == indent \o substring(node.content, 0, NodeContentCap)
                \o (IF Len(node.content) > NodeContentCap THEN Ellipsis ELSE <<>>)
                \o <<"\n">>
  IN titled \o body \o flattenNodes(documents, children(documents, r), depth + 1)

\* the loop of flattenNode over node.children
flattenNodes(documents, refs, depth) ==
  IF refs = <<>> THEN <<>>
  ELSE flattenNode(documents, Head(refs), depth)
         \o flattenNodes(documents, Tail(refs), depth)

\* buildSearchContext(documents, query)
buildSearchContext(documents) ==
  LET all == roots(documents)
  IN join([k \in DOMAIN all |-> flattenNode(documents, all[k], 0)], <<"\n","\n">>)

TruncationNotice ==
  <<".",".",".","\n","\n","[","C","o","n","t","e","n","t"," ","t","r","u","n","c","a","t","e","d",
    " ","f","o","r"," ","b","r","e","v","i","t","y","]">>

\* buildSearchPrompt(query, context): the two interpolations of the template
buildSearchPrompt(q, context) ==
  [query |-> q,
   content |-> substring(context, 0, ContextCap)
                 \o (IF Len(context) > ContextCap THEN TruncationNotice ELSE <<>>)]

\* ------------------------------------------------------ citation helpers

\* extractDocumentId(node): node.id.split("-")[0] || "unknown"
extractDocumentId(node) ==
  LET parts == split(node.id, "-")
  IN IF parts[1] # <<>> THEN parts[1] ELSE <<"u","n","k","n","o","w","n">>

UnknownDocument ==
  <<"U","n","k","n","o","w","n"," ","D","o","c","u","m","e","n","t">>

\* the while loop of extractDocumentTitle: current is r, node.id is id
RECURSIVE extractDocumentTitleFrom(_, _, _)
extractDocumentTitleFrom(documents, r, id) ==
  LET current == NodeAt(documents, r)
      kids == children(documents, r)
      same == SelectSeq(kids, LAMBDA c : NodeAt(documents, c).id = id)
  IN IF current.type = "root" /\ Truthy(current.title) THEN current.title
     ELSE IF same = <<>> THEN UnknownDocument
     ELSE extractDocumentTitleFrom(documents, same[1], id)

\* extractDocumentTitle(node)
extractDocumentTitle(documents, r) ==
  extractDocumentTitleFrom(documents, r, NodeAt(documents, r).id)

\* extractExcerpt with the break point searched in the whole content
\* (lastIndexOf without its fromIndex)
extractExcerpt_WholeContent(content, maxLength) ==
  IF Len(content) <= maxLength THEN content
  ELSE LET breakPoint == lastIndexOf(content, " ", Len(content))
       IN substring(content, 0, IF breakPoint > 0 THEN breakPoint ELSE maxLength)
            \o Ellipsis

\* extractExcerpt(node, maxLength) on node.content
extractExcerpt(content, maxLength) ==
  IF Len(content) <= maxLength THEN content
  ELSE LET breakPoint == lastIndexOf(content, " ", maxLength)
       IN substring(content, 0, IF breakPoint > 0 THEN breakPoint ELSE maxLength)
            \o Ellipsis

\* the SearchResult both paths push for a node
SearchResult(documents, r, num, den) ==
  LET node == NodeAt(documents, r)
  IN [content |-> node.content,
      relevance |-> [num |-> num, den |-> den],
      citation |-> [documentId |-> extractDocumentId(node),
                    documentTitle |-> extractDocumentTitle(documents, r),
                    nodeId |-> node.id,
                    section |-> node.title,
                    pageNumber |-> node.pageNumber,
                    position |-> node.metadata.position],
      excerpt |-> extractExcerpt(node.content, ExcerptCap)]

\* results.slice(0, query.maxResults || 10)
sliceToMax(results, maxResults) ==
  LET given == maxResults # {} /\ maxResults # {0}
      n == IF given THEN CHOOSE m \in maxResults : TRUE ELSE DefaultMaxResults
      end == IF n < 0 THEN Max(0, Len(results) + n) ELSE Min(n, Len(results))
  IN SubSeq(results, 1, end)

\* -------------------------------------------------------- keyword scorer

\* matchCount over the set of the keywords, a repeated keyword counted once
matchCount_Distinct(keywords, contentLower) ==
  Cardinality({keywords[k] : k \in {j \in DOMAIN keywords :
                                      includes(contentLower, keywords[j])}})

\* keywords.filter((kw) => contentLower.includes(kw)).length
matchCount(keywords, contentLower) ==
  Cardinality({k \in DOMAIN keywords : includes(contentLower, keywords[k])})

\* searchNodes(nodes): the results pushed, in the order of the scan
RECURSIVE searchNodes(_, _, _)
searchNodes(documents, refs, keywords) ==
  IF refs = <<>> THEN <<>>
  ELSE
    LET r == Head(refs)
        count == matchCount(keywords, toLowerCase(NodeAt(documents, r).content))
        kids == children(documents, r)
    IN (IF count > 0
          THEN <<SearchResult(documents, r, count, Len(keywords))>>
          ELSE <<>>)
         \o (IF Len(kids) > 0 THEN searchNodes(documents, kids, keywords) ELSE <<>>)
         \o searchNodes(documents, Tail(refs), keywords)

\* the comparator (a, b) => b.relevance - a.relevance, as its sign
compareRelevance(a, b) ==
  b.relevance.num * a.relevance.den - a.relevance.num * b.relevance.den

\* insertSorted with the element placed before its equals (an unstable sort)
insertSorted_BeforeEquals(sorted, x) ==
  LET later == {k \in DOMAIN sorted : compareRelevance(sorted[k], x) >= 0}
      at == IF later = {} THEN Len(sorted) + 1
            ELSE CHOOSE k \in later : \A m \in later : k <= m
  IN SubSeq(sorted, 1, at - 1) \o <<x>> \o SubSeq(sorted, at, Len(sorted))

\* one element placed into an already sorted prefix, behind its equals
insertSorted(sorted, x) ==
  LET later == {k \in DOMAIN sorted : compareRelevance(sorted[k], x) > 0}
      at == IF later = {} THEN Len(sorted) + 1
            ELSE CHOOSE k \in later : \A m \in later : k <= m
  IN SubSeq(sorted, 1, at - 1) \o <<x>> \o SubSeq(sorted, at, Len(sorted))

\* results.sort((a, b) => b.relevance - a.relevance): Array.prototype.sort is
\* stable
RECURSIVE sortByRelevance(_)
sortByRelevance(results) ==
  IF results = <<>> THEN <<>>
  ELSE insertSorted(sortByRelevance(SubSeq(results, 1, Len(results) - 1)),
                    results[Len(results)])

\* fallbackSearch(documents, query)
fallbackSearch(documents, query) ==
  LET keywords == splitWhiteSpace(toLowerCase(query.query))
      results == searchNodes(documents, roots(documents), keywords)
  IN sliceToMax(sortByRelevance(results), query.maxResults)

\* ------------------------------------------------------------- LLM path

NodePrefix == <<"n","o","d","e","-">>

\* parseLLMResponse without the trim of each line
parseLLMResponse_NoTrim(response) ==
  SelectSeq(split(response, "\n"), LAMBDA line : startsWith(line, NodePrefix))

\* parseLLMResponse(response)
parseLLMResponse(response) ==
  LET lines == split(response, "\n")
      trimmed == [k \in DOMAIN lines |-> trim(lines[k])]
  IN SelectSeq(trimmed, LAMBDA line : startsWith(line, NodePrefix))

\* findNodeById(nodes, id): the first node of the pre-order scan with that id
RECURSIVE findNodeById(_, _, _)
findNodeById(documents, refs, id) ==
  IF refs = <<>> THEN Null
  ELSE
    LET r == Head(refs)
        kids == children(documents, r)
        found == IF Len(kids) > 0 THEN findNodeById(documents, kids, id) ELSE Null
    IN IF NodeAt(documents, r).id = id THEN r
       ELSE IF found # Null THEN found
       ELSE findNodeById(documents, Tail(refs), id)

\* the loop "for (const id of relevantIds)" of searchWithLLM
RECURSIVE resultsForIds(_, _)
resultsForIds(documents, relevantIds) ==
  IF relevantIds = <<>> THEN <<>>
  ELSE
    LET node == findNodeById(documents, roots(documents), Head(relevantIds))
    IN (IF node # Null
          THEN <<SearchResult(documents, node, LLMRelevanceNum, LLMRelevanceDen)>>
          ELSE <<>>)
         \o resultsForIds(documents, Tail(relevantIds))

\* a value that is not a string (a custom client may resolve to anything)
NonString == <<"non-string">>

\* what an awaited call gives: a value, or a thrown error
Returns(v) == [threw |-> FALSE, value |-> v]

Throws(e) == [threw |-> TRUE, value |-> e]

SupportedApis == {"anthropic-messages", "openai-completions", "google-generative-ai"}

\* the shape shared by callAnthropic, callOpenAI and callGoogle: fetch may
\* reject, a response that is not ok throws, and the text of the body is
\* returned ("" when it is missing); env is what the network does
callVendor(env) ==
  CASE env.kind = "fetchRejects" -> Throws("fetch failed")
    [] env.kind = "notOk" -> Throws("API error")
    [] OTHER -> Returns(env.text)

\* callAnthropic
callAnthropic(env) == callVendor(env)

\* callOpenAI: the text of the first choice is trimmed
callOpenAI(env) ==
  LET r == callVendor(env)
  IN IF r.threw THEN r ELSE Returns(trim(r.value))

\* callGoogle
callGoogle(env) == callVendor(env)

\* what a custom client does with the call
callCustom(env) ==
  CASE env.kind = "rejects" -> Throws("custom client failed")
    [] env.kind = "nonString" -> Returns(NonString)
    [] OTHER -> Returns(env.text)

\* what callOpenClawLLM gives, with the clients it has invoked on the way
Called(r, invoked) == [threw |-> r.threw, value |-> r.value, invoked |-> invoked]

\* callOpenClawLLM that asks for the apiKey before it looks at the custom
\* client
callOpenClawLLM_ApiKeyFirst(provider, customLLMClient, env) ==
  IF ~Truthy(provider.apiKey)
    THEN Called(Throws("LLM provider requires apiKey"), <<>>)
  ELSE IF customLLMClient
    THEN Called(callCustom(env), <<"customLLMClient">>)
  ELSE IF provider.api \in {"undefined", "anthropic-messages"}
    THEN Called(callAnthropic(env), <<"callAnthropic">>)
  ELSE IF provider.api = "openai-completions"
    THEN Called(callOpenAI(env), <<"callOpenAI">>)
  ELSE IF provider.api = "google-generative-ai"
    THEN Called(callGoogle(env), <<"callGoogle">>)
  ELSE Called(Throws("Unsupported API type"), <<>>)

\* callOpenClawLLM(prompt, provider, customLLMClient); env is what the custom
\* client or the network does with the call. The value or the error comes
\* with the clients that were invoked for it.
callOpenClawLLM(provider, customLLMClient, env) ==
  IF customLLMClient
    THEN Called(callCustom(env), <<"customLLMClient">>)
    ELSE LET api == IF provider.api = "undefined" THEN "anthropic-messages"
                    ELSE provider.api
         IN IF ~Truthy(provider.apiKey)
              THEN Called(Throws("LLM provider requires apiKey"), <<>>)
            ELSE IF api = "anthropic-messages"
              THEN Called(callAnthropic(env), <<"callAnthropic">>)
            ELSE IF api = "openai-completions"
              THEN Called(callOpenAI(env), <<"callOpenAI">>)
            ELSE IF api = "google-generative-ai"
              THEN Called(callGoogle(env), <<"callGoogle">>)
            ELSE Called(Throws("Unsupported API type"), <<>>)

\* tryBlock with a value that is no string read as a response without lines
tryBlock_NonStringIsEmpty(documents, called) ==
  IF called.threw THEN called
  ELSE IF called.value = NonString THEN Returns(<<>>)
  ELSE Returns(resultsForIds(documents, parseLLMResponse(called.value)))

\* the try block of searchWithLLM after the await: the results array, or a
\* throw (response.split of a value that is no string is a TypeError)
tryBlock(documents, called) ==
  IF called.threw THEN called
  ELSE IF called.value = NonString THEN Throws("response.split is not a function")
  ELSE Returns(resultsForIds(documents, parseLLMResponse(called.value)))

\* searchWithLLM with a catch block that returns the results gathered so far
searchWithLLM_CatchReturnsResults(documents, query, provider, customLLMClient, env) ==
  LET called == callOpenClawLLM(provider, customLLMClient, env)
      tried == IF called.threw THEN called
               ELSE IF called.value = NonString THEN Throws("response.split is not a function")
               ELSE Returns(resultsForIds(documents, parseLLMResponse(called.value)))
  IN IF tried.threw
       THEN [settled |-> "fulfilled", value |-> sliceToMax(<<>>, query.maxResults),
             results |-> <<>>, caught |-> TRUE]
       ELSE [settled |-> "fulfilled", value |-> sliceToMax(tried.value, query.maxResults),
             results |-> tried.value, caught |-> FALSE]

\* searchWithLLM(documents, query, provider, customLLMClient): how the promise
\* settles, with the local results array at that moment
searchWithLLM(documents, query, provider, customLLMClient, env) ==
  LET tried == tryBlock(documents, callOpenClawLLM(provider, customLLMClient, env))
  IN IF tried.threw
       THEN [settled |-> "fulfilled", value |-> fallbackSearch(documents, query),
             results |-> <<>>, caught |-> TRUE]
       ELSE [settled |-> "fulfilled", value |-> sliceToMax(tried.value, query.maxResults),
             results |-> tried.value, caught |-> FALSE]

\* ------------------------------------------------------- parseDocument

\* path.basename(source) of a path that does not end in a separator
basename(source) ==
  SubSeq(source, lastIndexOf(source, "/", Len(source)) + 2, Len(source))

\* path.extname(source): from the last dot of the base name on, "" when it
\* has no dot or only a leading one
extname(source) ==
  LET base == basename(source)
      dot == lastIndexOf(base, ".", Len(base))
  IN IF dot <= 0 THEN <<>> ELSE SubSeq(base, dot + 1, Len(base))

\* new Date(): a Date object holding the time in milliseconds
NewDate(ms) == [kind |-> "Date", ms |-> ms]

\* what parsePDF returns for the page texts it has split the text into
pdfPartial(data, pageTexts) ==
  [type |-> "pdf",
   tree |-> parsePDFOf(data, pageTexts),
   metadata |-> [totalPages |-> {IF data.numpages # 0 THEN data.numpages
                                 ELSE Len(pageTexts)},
                 totalChars |-> Len(data.text),
                 totalWords |-> Len(splitWhiteSpace(data.text))]]

\* what parseMarkdown and parseText return with the tree
textPartial(type, nodes, docContent) ==
  [type |-> type, tree |-> nodes,
   metadata |-> [totalPages |-> {}, totalChars |-> Len(docContent),
                 totalWords |-> Len(splitWhiteSpace(docContent))]]

\* the switch of parseDocument on the extension. parseHTML is left out: its
\* arm of the switch is not among the cases.
partialDocument(ext, docContent, file, nowv) ==
  CASE ext = <<".","p","d","f">> ->
         pdfPartial(file.pdf, pageTextsOf(file.pdf.text, file.pdf.numpages))
    [] ext \in {<<".","m","d">>, <<".","m","a","r","k","d","o","w","n">>} ->
         textPartial("markdown", parseMarkdown(docContent, <<nowv>>), docContent)
    [] ext \notin {<<".","p","d","f">>, <<".","m","d">>,
                   <<".","m","a","r","k","d","o","w","n">>,
                   <<".","h","t","m","l">>, <<".","h","t","m">>} ->
         textPartial("text", parseText(docContent, <<nowv>>), docContent)

\* the ParsedDocument parseDocument returns for what the parser gave
parsedDocument(source, nowv, partial) ==
  [id |-> generateId(source, nowv),
   source |-> source,
   title |-> IF Truthy(partial.tree[1].title) THEN partial.tree[1].title
             ELSE basename(source),
   createdAt |-> NewDate(nowv),
   type |-> partial.type,
   tree |-> partial.tree,
   metadata |-> partial.metadata]

\* const ext = content ? "text" : path.extname(source).toLowerCase()
extOf(source, content) ==
  IF Truthy(content) THEN <<"t","e","x","t">> ELSE toLowerCase(extname(source))

\* parseDocument(source, content) at the time nowv; file is what the file
\* system holds under source: [readable, text, pdf], pdf being what pdf-parse
\* makes of it, [ok, text, numpages]. The document is returned, or the error
\* of fs.readFile or pdf-parse is thrown.
parseDocument(source, content, file, nowv) ==
  IF ~Truthy(content) /\ ~file.readable THEN Throws("ENOENT")
  ELSE IF extOf(source, content) = <<".","p","d","f">> /\ ~file.pdf.ok
    THEN Throws("Invalid PDF structure")
  ELSE Returns(parsedDocument(source, nowv,
                 partialDocument(extOf(source, content),
                                 IF Truthy(content) THEN content ELSE file.text,
                                 file, nowv)))

\* ------------------------------------------------------------ PageIndex

\* a Map as the list of its entries [key, value] in insertion order
mapHas(map, key) == \E i \in DOMAIN map : map[i].key = key

mapGet(map, key) == map[CHOOSE i \in DOMAIN map : map[i].key = key].value

\* Map.prototype.set: the value of a key that is present is replaced where
\* it stands
mapSet(map, key, value) ==
  IF mapHas(map, key)
    THEN [i \in DOMAIN map |-> IF map[i].key = key THEN [key |-> key, value |-> value]
                               ELSE map[i]]
    ELSE Append(map, [key |-> key, value |-> value])

mapDelete(map, key) == SelectSeq(map, LAMBDA e : e.key # key)

\* a tree object: the reference that is its identity and its nodes
TreeObject(ref, nodes) == [ref |-> ref, nodes |-> nodes]

\* the index: this.documents, this.nodes and the number of tree objects
\* allocated so far
Index(docs, nodes, allocated) ==
  [documents |-> docs, nodes |-> nodes, allocated |-> allocated]

\* the lines of addDocument after the await, for what parseDocument gave,
\* with the tree pushed even when it threw
afterParse_PushesFirst(index, parsedDoc) ==
  IF parsedDoc.threw
    THEN [index |-> Index(index.documents,
                          Append(index.nodes, TreeObject(index.allocated + 1, <<>>)),
                          index.allocated + 1),
          outcome |-> "rejected", id |-> <<>>]
    ELSE [index |-> Index(mapSet(index.documents, parsedDoc.value.id,
                                 [parsedDoc.value EXCEPT !.tree =
                                    TreeObject(index.allocated + 1, @)]),
                          Append(index.nodes,
                                 TreeObject(index.allocated + 1, parsedDoc.value.tree)),
                          index.allocated + 1),
          outcome |-> "fulfilled", id |-> parsedDoc.value.id]

\* the lines of addDocument after the await, for what parseDocument gave: a
\* throw rejects the call, a document is set in the map and its tree pushed
afterParse(index, parsedDoc) ==
  IF parsedDoc.threw
    THEN [index |-> index, outcome |-> "rejected", id |-> <<>>]
    ELSE [index |-> Index(mapSet(index.documents, parsedDoc.value.id,
                                 [parsedDoc.value EXCEPT !.tree =
                                    TreeObject(index.allocated + 1, @)]),
                          Append(index.nodes,
                                 TreeObject(index.allocated + 1, parsedDoc.value.tree)),
                          index.allocated + 1),
          outcome |-> "fulfilled", id |-> parsedDoc.value.id]

\* addDocument(source, content): the index after the call and how the
\* promise settles
addDocument(index, source, content, file, nowv) ==
  afterParse(index, parseDocument(source, content, file, nowv))

\* the rest of the loop of addDocuments after one addDocument
RECURSIVE addDocuments(_, _, _, _)
restOfDocuments(one, sources, files, nowv) ==
  IF one.outcome = "rejected" THEN one
  ELSE addDocuments(one.index, sources, files, nowv)

\* addDocuments(sources): addDocument for each source in turn, up to the
\* first that rejects; files gives the file of each source
addDocuments(index, sources, files, nowv) ==
  IF sources = <<>> THEN [index |-> index, outcome |-> "fulfilled", id |-> <<>>]
  ELSE restOfDocuments(
         addDocument(index, Head(sources), Undefined, files[Head(sources)], nowv),
         Tail(sources), files, nowv)

\* removeDocument(id): the tree of the entry is filtered out of this.nodes
\* by identity, into a new array
removeDocument(index, id) ==
  IF mapHas(index.documents, id)
    THEN Index(mapDelete(index.documents, id),
               SelectSeq(index.nodes,
                         LAMBDA n : n.ref # mapGet(index.documents, id).tree.ref),
               index.allocated)
    ELSE index

\* clear()
clear(index) == Index(<<>>, <<>>, index.allocated)

\* JSON.stringify of the entries of this.documents: a Date becomes its ISO
\* string, a tree object becomes the text of its nodes (absent fields stay
\* absent)
stringify(docs) ==
  [i \in DOMAIN docs |->
     [key |-> docs[i].key,
      value |-> [docs[i].value EXCEPT !.createdAt = [kind |-> "string", ms |-> @.ms],
                                      !.tree = @.nodes]]]

\* save(filePath): what the file holds afterwards
save(index) == [kind |-> "entries", entries |-> stringify(index.documents)]

\* the loop of load over the decoded entries: every tree is a new object
RECURSIVE loadEntries(_, _)
loadEntries(index, entries) ==
  IF entries = <<>> THEN index
  ELSE LET object == TreeObject(index.allocated + 1, Head(entries).value.tree)
           doc == [Head(entries).value EXCEPT !.tree = object]
       IN loadEntries(Index(mapSet(index.documents, Head(entries).key, doc),
                            Append(index.nodes, object),
                            index.allocated + 1),
                      Tail(entries))

\* load(filePath): readFile rejects when the file is absent and JSON.parse
\* throws on a text that is no JSON, both before clear(); a JSON value that
\* is not iterable throws in the loop, after clear()
load(index, file) ==
  CASE file.kind \in {"absent", "garbage"} -> [index |-> index, outcome |-> "rejected"]
    [] file.kind = "object" -> [index |-> clear(index), outcome |-> "rejected"]
    [] file.kind = "entries" ->
         [index |-> loadEntries(clear(index), file.entries), outcome |-> "fulfilled"]

\* the filter of search: the trees n of this.nodes for which
\* this.documents.get(n.id)?.source.includes(collection) is truthy, n.id
\* being the id of the root node of the tree
filterByCollection(index, collection) ==
  SelectSeq(index.nodes,
            LAMBDA n : /\ mapHas(index.documents, n.nodes[1].id)
                       /\ includes(mapGet(index.documents, n.nodes[1].id).source,
                                   collection))

\* the array search passes to searchWithLLM: a new, filtered array when
\* query.collection is truthy, this.nodes itself otherwise
filteredNodes(index, q) ==
  IF Truthy(q.collection)
    THEN [refs |-> filterByCollection(index, q.collection), shared |-> FALSE]
    ELSE [refs |-> index.nodes, shared |-> TRUE]

\* the forest an array of tree objects stands for
Forest(objects) == [i \in DOMAIN objects |-> objects[i].nodes]

\* getDocument(id): the document, or undefined as the empty set
getDocument(index, id) ==
  IF mapHas(index.documents, id) THEN {mapGet(index.documents, id)} ELSE {}

\* ------------------------------------------------------------- inputs

\* "First part\n\nSecond section"
TextA ==
  <<"F","i","r","s","t"," ","p","a","r","t","\n","\n","S","e","c","o","n","d"," ","s","e","c","t","i","o","n">>

\* "section\n\nfirst\n\nsecond SECTION"
TextB ==
  <<"s","e","c","t","i","o","n","\n","\n","f","i","r","s","t","\n","\n","s","e","c","o","n","d"," ","S","E","C","T","I","O","N">>

\* the readings of Date.now() while the forests of the search runs are parsed
ParseClock == <<7>>

TreeA == parseText(TextA, ParseClock)

TreeB == parseText(TextB, ParseClock)

\* the forests searchWithLLM is called with
Forests == {<<>>, <<TreeA>>, <<TreeB>>, <<TreeB, TreeA>>}

\* provider.apiKey and provider.api ("undefined": the field is absent)
Providers ==
  [apiKey : {Undefined, <<"k">>},
   api : {"undefined", "openai-completions", "google-generative-ai", "bogus"}]

MaxResultsChoices == {{}} \cup {{n} : n \in 0..MaxMaxResults}

\* "second section", "nothing"
SearchQueryStrings ==
  {<<"s","e","c","o","n","d"," ","s","e","c","t","i","o","n">>,
   <<"n","o","t","h","i","n","g">>}

SearchQueries == [query : SearchQueryStrings, maxResults : MaxResultsChoices]

\* lines an LLM may answer with: the id of a first paragraph, the id of the
\* second paragraph of TextA with white space around it, a line without the
\* prefix, and the id of a root
ResponseLines ==
  {<<"n","o","d","e","-","p","a","r","a","g","r","a","p","h","-","0","-","7">>,
   <<" "," ","n","o","d","e","-","p","a","r","a","g","r","a","p","h","-","1","1","-","7","\r">>,
   <<"g","a","r","b","a","g","e">>,
   <<"r","o","o","t">>}

SeqsUpTo(S, n) == UNION {[1..k -> S] : k \in 0..n}

Responses == {join(ls, <<"\n">>) : ls \in SeqsUpTo(ResponseLines, MaxLines)}

\* -------------------------------------------------------- state machine

VARIABLES
  pc,               \* "idle", "awaiting" (the LLM call is pending) or "done"
  documents,        \* searchWithLLM: the forest argument
  query,            \* searchWithLLM: the query argument
  provider,         \* searchWithLLM: the provider argument
  customLLMClient,  \* searchWithLLM: TRUE when a custom client is passed
  prompt,           \* the prompt built before the call
  llm,              \* what the LLM step did: [kind, text, invoked, caught]
  results,          \* the local results array when the function returns
  returned,         \* the value the promise settles with
  settled,          \* "pending", "fulfilled" or "rejected"
  node,             \* extractExcerpt: the content of the node argument
  excerpt,          \* extractExcerpt: the value returned
  parsing,          \* a parser: its input, [ext, text, numpages]
  parsed,           \* a parser: the tree it returned
  indexDocuments,   \* PageIndex: this.documents, the entries in insertion order
  indexNodes,       \* PageIndex: this.nodes, the tree objects by reference
  allocated,        \* the number of tree objects allocated so far
  now,              \* Date.now()
  disk,             \* the file save() writes and load() reads
  call,             \* PageIndex: the last call that returned, [op, outcome, id]
  searchArray       \* PageIndex.search: the array passed on, [refs, shared]

vars ==
  <<pc, documents, query, provider, customLLMClient, prompt, llm, results,
    returned, settled, node, excerpt, parsing, parsed, indexDocuments,
    indexNodes, allocated, now, disk, call, searchArray>>

parseVars == <<parsing, parsed>>

indexVars == <<indexDocuments, indexNodes, allocated, now, disk, call, searchArray>>

excerptVars == <<node, excerpt>>

searchVars ==
  <<documents, query, provider, customLLMClient, prompt, llm, results,
    returned, settled>>

NoQuery == [query |-> <<>>, maxResults |-> {}]

NoProvider == [apiKey |-> Undefined, api |-> "undefined"]

NoPrompt == [query |-> <<>>, content |-> <<>>]

NoLLM == [kind |-> "none", text |-> <<>>, invoked |-> <<>>, caught |-> FALSE]

NoParsing == [ext |-> "", text |-> <<>>, numpages |-> {}]

NoFile == [kind |-> "absent", entries |-> <<>>]

NoCall == [op |-> "none", outcome |-> "none", id |-> <<>>]

NoArray == [refs |-> <<>>, shared |-> FALSE]

Init ==
  /\ pc = "idle"
  /\ documents = <<>>
  /\ query = NoQuery
  /\ provider = NoProvider
  /\ customLLMClient = FALSE
  /\ prompt = NoPrompt
  /\ llm = NoLLM
  /\ results = <<>>
  /\ returned = <<>>
  /\ settled = "pending"
  /\ node = <<>>
  /\ excerpt = <<>>
  /\ parsing = NoParsing
  /\ parsed = <<>>
  /\ indexDocuments = <<>>
  /\ indexNodes = <<>>
  /\ allocated = 0
  /\ now = 0
  /\ disk = NoFile
  /\ call = NoCall
  /\ searchArray = NoArray

\* searchWithLLM is called: the context and the prompt are built, the LLM
\* call is issued and the function awaits it
Search(docs, q, prov, custom) ==
  /\ pc = "idle"
  /\ pc' = "awaiting"
  /\ documents' = docs
  /\ query' = q
  /\ provider' = prov
  /\ customLLMClient' = custom
  /\ prompt' = buildSearchPrompt(q.query, buildSearchContext(docs))
  /\ UNCHANGED <<llm, results, returned, settled>>
  /\ UNCHANGED <<excerptVars, parseVars, indexVars>>

\* what is kept of the LLM step: what the environment did, the clients
\* callOpenClawLLM invoked and whether the catch block ran
LLMStep(env, invoked, caught) ==
  [kind |-> env.kind, text |-> env.text, invoked |-> invoked, caught |-> caught]

\* the awaited call settles as env says and searchWithLLM runs to its return
Settle(env) ==
  LET out == searchWithLLM(documents, query, provider, customLLMClient, env)
  IN /\ pc' = "done"
     /\ llm' = LLMStep(env, callOpenClawLLM(provider, customLLMClient, env).invoked,
                        out.caught)
     /\ results' = out.results
     /\ returned' = out.value
     /\ settled' = out.settled
     /\ UNCHANGED <<documents, query, provider, customLLMClient, prompt>>
     /\ UNCHANGED <<excerptVars, parseVars, indexVars>>

VendorReached ==
  /\ ~customLLMClient
  /\ Truthy(provider.apiKey)
  /\ provider.api \in SupportedApis \cup {"undefined"}

\* the custom client resolves to a string
CustomClientResolves(text) ==
  /\ pc = "awaiting" /\ customLLMClient
  /\ Settle([kind |-> "text", text |-> text])

\* the custom client throws or its promise rejects
CustomClientRejects ==
  /\ pc = "awaiting" /\ customLLMClient
  /\ Settle([kind |-> "rejects", text |-> <<>>])

\* the custom client resolves to a value that is not a string
CustomClientReturnsNonString ==
  /\ pc = "awaiting" /\ customLLMClient
  /\ Settle([kind |-> "nonString", text |-> <<>>])

\* no custom client and no apiKey: callOpenClawLLM throws
MissingApiKey ==
  /\ pc = "awaiting" /\ ~customLLMClient /\ ~Truthy(provider.apiKey)
  /\ Settle([kind |-> "missingApiKey", text |-> <<>>])

\* no custom client and an api that is none of the three: callOpenClawLLM throws
UnsupportedApiType ==
  /\ pc = "awaiting" /\ ~customLLMClient /\ Truthy(provider.apiKey)
  /\ provider.api \notin SupportedApis \cup {"undefined"}
  /\ Settle([kind |-> "unsupportedApi", text |-> <<>>])

\* fetch rejects (network failure)
FetchRejects ==
  /\ pc = "awaiting" /\ VendorReached
  /\ Settle([kind |-> "fetchRejects", text |-> <<>>])

\* the vendor answers with a status that is not 2xx
ResponseNotOk ==
  /\ pc = "awaiting" /\ VendorReached
  /\ Settle([kind |-> "notOk", text |-> <<>>])

\* the vendor answers 2xx with a body whose text is text
VendorResponds(text) ==
  /\ pc = "awaiting" /\ VendorReached
  /\ Settle([kind |-> "text", text |-> text])

\* the caller takes the result; the next call may start
Return ==
  /\ pc = "done"
  /\ pc' = "idle"
  /\ documents' = <<>>
  /\ query' = NoQuery
  /\ provider' = NoProvider
  /\ customLLMClient' = FALSE
  /\ prompt' = NoPrompt
  /\ llm' = NoLLM
  /\ results' = <<>>
  /\ returned' = <<>>
  /\ settled' = "pending"
  /\ UNCHANGED <<excerptVars, parseVars, indexVars>>

Next ==
  \/ \E docs \in Forests, q \in SearchQueries, prov \in Providers, custom \in BOOLEAN :
       Search(docs, q, prov, custom)
  \/ \E text \in Responses : CustomClientResolves(text)
  \/ CustomClientRejects
  \/ CustomClientReturnsNonString
  \/ MissingApiKey
  \/ UnsupportedApiType
  \/ FetchRejects
  \/ ResponseNotOk
  \/ \E text \in Responses : VendorResponds(text)
  \/ Return

Spec == Init /\ [][Next]_vars

\* ------------------------------------------- the keyword scorer by itself

\* "second section", " section", "section section second", "SECTION first",
\* "nothing", "", "second  nothing "
KeywordQueryStrings ==
  {<<"s","e","c","o","n","d"," ","s","e","c","t","i","o","n">>,
   <<" ","s","e","c","t","i","o","n">>,
   <<"s","e","c","t","i","o","n"," ","s","e","c","t","i","o","n"," ","s","e","c","o","n","d">>,
   <<"S","E","C","T","I","O","N"," ","f","i","r","s","t">>,
   <<"n","o","t","h","i","n","g">>,
   <<>>,
   <<"s","e","c","o","n","d"," "," ","n","o","t","h","i","n","g"," ">>}

KeywordQueries == [query : KeywordQueryStrings, maxResults : MaxResultsChoices]

\* the tree of TextA with a title on its root, as a caller of searchWithLLM
\* may build it
TreeTitled == [TreeA EXCEPT ![1].title = <<"D","o","c">>]

KeywordForests == Forests \cup {<<TreeA, TreeB>>, <<TreeB, TreeB>>, <<TreeTitled>>}

\* fallbackSearch(docs, q) is applied
KeywordSearch(docs, q) ==
  /\ pc = "idle"
  /\ pc' = "done"
  /\ documents' = docs
  /\ query' = q
  /\ returned' = fallbackSearch(docs, q)
  /\ settled' = "fulfilled"
  /\ UNCHANGED <<provider, customLLMClient, prompt, llm, results>>
  /\ UNCHANGED <<excerptVars, parseVars, indexVars>>

KeywordReturn ==
  /\ pc = "done"
  /\ pc' = "idle"
  /\ documents' = <<>>
  /\ query' = NoQuery
  /\ returned' = <<>>
  /\ settled' = "pending"
  /\ UNCHANGED <<provider, customLLMClient, prompt, llm, results>>
  /\ UNCHANGED <<excerptVars, parseVars, indexVars>>

KeywordNext ==
  \/ \E docs \in KeywordForests, q \in KeywordQueries : KeywordSearch(docs, q)
  \/ KeywordReturn

KeywordSpec == Init /\ [][KeywordNext]_vars

\* ------------------------------------------------ extractExcerpt by itself

\* 0-based positions of a content that may hold white space
MarkPositions == {0, 1, ExcerptCap - 1, ExcerptCap, ExcerptCap + 1}

\* the lengths of the contents: short ones and those around the cap
ContentLengths == {0, 2} \cup (ExcerptCap - 1)..(ExcerptCap + MaxExtra)

\* a content of the given length: "x" everywhere but at the marked positions
Content(length, marks) ==
  [i \in 1..length |-> IF (i - 1) \in DOMAIN marks THEN marks[i - 1] ELSE "x"]

Contents ==
  {Content(n, marks) : n \in ContentLengths,
                       marks \in [MarkPositions -> {"x", " ", "\t"}]}

\* extractExcerpt(node, 200) is applied to a node with content c
ExtractExcerpt(c) ==
  /\ pc = "idle"
  /\ pc' = "done"
  /\ node' = c
  /\ excerpt' = extractExcerpt(c, ExcerptCap)
  /\ UNCHANGED <<searchVars, parseVars, indexVars>>

ExcerptReturn ==
  /\ pc = "done"
  /\ pc' = "idle"
  /\ node' = <<>>
  /\ excerpt' = <<>>
  /\ UNCHANGED <<searchVars, parseVars, indexVars>>

ExcerptNext ==
  \/ \E c \in Contents : ExtractExcerpt(c)
  \/ ExcerptReturn

ExcerptSpec == Init /\ [][ExcerptNext]_vars

\* ------------------------------------------------- the Markdown parser

\* the longest Markdown input, in lines
MaxMdLines == 4

\* "# A", "## B", "### C", a line of text and the empty line
MdLines ==
  {<<"#"," ","A">>, <<"#","#"," ","B">>, <<"#","#","#"," ","C">>, <<"t","e","x","t">>, <<>>}

\* "# A\n\ntext1\n\n## B\n\ntext2\n\n# C\n\ntext3"
ExampleMd ==
  <<"#"," ","A","\n","\n","t","e","x","t","1","\n","\n","#","#"," ","B","\n","\n","t","e","x","t","2","\n","\n","#"," ","C","\n","\n","t","e","x","t","3">>

\* "#x\n####### y\n#\t z \n# w\r": "# z" is the only heading
OddMd ==
  <<"#","x","\n","#","#","#","#","#","#","#"," ","y","\n","#","\t"," ","z"," ","\n","#"," ","w","\r">>

MarkdownInputs ==
  {join(ls, <<"\n">>) : ls \in SeqsUpTo(MdLines, MaxMdLines)} \cup {ExampleMd, OddMd}

\* parseMarkdown is applied to content
ParseMarkdown(content) ==
  /\ pc = "idle"
  /\ pc' = "done"
  /\ parsing' = [ext |-> ".md", text |-> content, numpages |-> {}]
  /\ parsed' = parseMarkdown(content, ParseClock)
  /\ UNCHANGED <<searchVars, excerptVars, indexVars>>

ParseReturn ==
  /\ pc = "done"
  /\ pc' = "idle"
  /\ parsing' = NoParsing
  /\ parsed' = <<>>
  /\ UNCHANGED <<searchVars, excerptVars, indexVars>>

MarkdownNext ==
  \/ \E content \in MarkdownInputs : ParseMarkdown(content)
  \/ ParseReturn

MarkdownSpec == Init /\ [][MarkdownNext]_vars

\* ------------------------------------------------------ the PDF inputs

\* the longest extracted text, in pieces
MaxPdfPieces == 3

\* the largest page count pdf-parse reports
MaxPages == 3

\* "ab", a form feed, "\nChapter 1\n", "\n# AB\nC D\n" and a line end
PdfPieces ==
  {<<"a","b">>, <<"\f">>, <<"\n","C","h","a","p","t","e","r"," ","1","\n">>, <<"\n","#"," ","A","B","\n","C"," ","D","\n">>, <<"\n">>}

RECURSIVE concat(_)
concat(parts) == IF parts = <<>> THEN <<>> ELSE Head(parts) \o concat(Tail(parts))

\* a text of one line longer than a section, then a short line
LongPdfText ==
  [i \in 1..(CharsPerSection + 4) |-> IF i = CharsPerSection + 2 THEN "\n" ELSE "x"]

PdfTexts == {concat(ps) : ps \in SeqsUpTo(PdfPieces, MaxPdfPieces)} \cup {LongPdfText}

\* parsePDF runs on a file from which pdf-parse extracted text and numpages
ParsePDF(text, numpages) ==
  /\ pc = "idle"
  /\ pc' = "done"
  /\ parsing' = [ext |-> ".pdf", text |-> text, numpages |-> {numpages}]
  /\ parsed' = parsePDF([text |-> text, numpages |-> numpages])
  /\ UNCHANGED <<searchVars, excerptVars, indexVars>>

PdfNext ==
  \/ \E text \in PdfTexts, numpages \in 0..MaxPages : ParsePDF(text, numpages)
  \/ ParseReturn

PdfSpec == Init /\ [][PdfNext]_vars

\* ------------------------------------------------- the four parsers

\* the latest millisecond Date.now() reads
MaxClock == 1

\* what Date.now() reads during a parse: the same millisecond all along, or
\* one millisecond at the first call and another from the second call on
Clocks == {<<a>> : a \in 0..MaxClock} \cup {<<a, b>> : a, b \in 0..MaxClock}

\* the longest text of the plain-text runs, in lines
MaxTextLines == 3

\* "ab", "c d", the empty line and a line of blanks
TextLines == {<<"a","b">>, <<"c"," ","d">>, <<>>, <<" "," ">>}

TextInputs == {join(ls, <<"\n">>) : ls \in SeqsUpTo(TextLines, MaxTextLines)}

\* the most elements of an HTML body
MaxElements == 3

\* <h1>A</h1>, <h2>B</h2>, <H1> C </H1>, <p>text</p>, <div> ab </div>,
\* <span>x</span> and an empty <p>
HtmlElements ==
  {[tagName |-> <<"h","1">>, text |-> <<"A">>],
   [tagName |-> <<"h","2">>, text |-> <<"B">>],
   [tagName |-> <<"H","1">>, text |-> <<" ","C"," ">>],
   [tagName |-> <<"p">>, text |-> <<"t","e","x","t">>],
   [tagName |-> <<"d","i","v">>, text |-> <<" ","a","b"," ">>],
   [tagName |-> <<"s","p","a","n">>, text |-> <<"x">>],
   [tagName |-> <<"p">>, text |-> <<" ">>]}

\* the text of a document whose elements follow one another
textOf(elements) == concat([i \in DOMAIN elements |-> elements[i].text])

HtmlInputs ==
  {[text |-> textOf(es), elements |-> es] : es \in SeqsUpTo(HtmlElements, MaxElements)}

\* a parser has returned tree for the text, the clock reading clk
Parsed(ext, text, clk, tree) ==
  /\ pc = "idle"
  /\ pc' = "done"
  /\ parsing' = [ext |-> ext, text |-> text, numpages |-> {}, clock |-> clk]
  /\ parsed' = tree
  /\ UNCHANGED <<searchVars, excerptVars, indexVars>>

\* parseText is applied to content
ParseTextAt(content, clk) == Parsed(".txt", content, clk, parseText(content, clk))

\* parseMarkdown is applied to content
ParseMarkdownAt(content, clk) == Parsed(".md", content, clk, parseMarkdown(content, clk))

\* parseHTML is applied to the document cheerio loaded
ParseHTMLAt(doc, clk) == Parsed(".html", doc.text, clk, parseHTML(doc, clk))

ParsersNext ==
  \/ pc = "idle" /\ \E content \in TextInputs, clk \in Clocks : ParseTextAt(content, clk)
  \/ pc = "idle" /\ \E content \in MarkdownInputs, clk \in Clocks :
                      ParseMarkdownAt(content, clk)
  \/ pc = "idle" /\ \E doc \in HtmlInputs, clk \in Clocks : ParseHTMLAt(doc, clk)
  \/ pc = "idle" /\ \E text \in PdfTexts \ {LongPdfText}, numpages \in 0..MaxPages :
                      ParsePDF(text, numpages)
  \/ ParseReturn

ParsersSpec == Init /\ [][ParsersNext]_vars

\* ------------------------------------------------------ the index runs

\* the most tree objects allocated in a run
MaxTrees == 2

\* the last reading of the clock
MaxNow == 1

SourceA == <<"d","o","c","s","/","a",".","t","x","t">>

SourceB == <<"b",".","M","D">>

SourceGone == <<"g","o","n","e",".","p","d","f">>

SourceC == <<"d","o","c","s","/","c",".","p","d","f">>

Sources == {SourceA, SourceB, SourceGone, SourceC}

\* what the file system holds: docs/a.txt is TextA, b.MD is "# A\ntext",
\* gone.pdf does not exist, docs/c.pdf is a PDF of two pages with the text
\* "ab\fcd"
Files ==
  [s \in Sources |->
     [readable |-> s # SourceGone,
      text |-> IF s = SourceA THEN TextA
               ELSE IF s = SourceB THEN <<"#"," ","A","\n","t","e","x","t">>
               ELSE <<"%","P","D","F">>,
      pdf |-> [ok |-> s = SourceC, text |-> <<"a","b","\f","c","d">>, numpages |-> 2]]]

\* the calls of addDocument: [source, content]
AddCalls ==
  {<<SourceA, Undefined>>, <<SourceB, Undefined>>, <<SourceGone, Undefined>>,
   <<SourceGone, TextB>>, <<SourceC, Undefined>>}

\* the arguments of addDocuments
SourceLists == SeqsUpTo({SourceA, SourceGone}, 2)

TheIndex == Index(indexDocuments, indexNodes, allocated)

\* the fields of the index are assigned
SetIndex(index) ==
  /\ indexDocuments' = index.documents
  /\ indexNodes' = index.nodes
  /\ allocated' = index.allocated

\* what becomes of the array a pending search holds: it is this.nodes itself
\* until this.nodes is reassigned, and a push onto this.nodes shows in it
ArrayAfter(reassigned, nodes) ==
  searchArray' =
    IF ~searchArray.shared THEN searchArray
    ELSE IF reassigned THEN [refs |-> searchArray.refs, shared |-> FALSE]
    ELSE [refs |-> nodes, shared |-> TRUE]

otherVars == <<searchVars, excerptVars, parseVars>>

\* a call that pushes onto this.nodes has run to its end with out
Pushed(op, out) ==
  /\ SetIndex(out.index)
  /\ ArrayAfter(FALSE, out.index.nodes)
  /\ call' = [op |-> op, outcome |-> out.outcome, id |-> out.id]
  /\ UNCHANGED <<pc, now, disk, otherVars>>

AddDocument(source, content) ==
  /\ allocated < MaxTrees
  /\ Pushed("addDocument", addDocument(TheIndex, source, content, Files[source], now))

AddDocuments(sources) ==
  /\ allocated + Len(sources) <= MaxTrees
  /\ Pushed("addDocuments", addDocuments(TheIndex, sources, Files, now))

RemoveDocument(id) ==
  /\ SetIndex(removeDocument(TheIndex, id))
  /\ ArrayAfter(mapHas(indexDocuments, id), indexNodes)
  /\ call' = [op |-> "removeDocument",
              outcome |-> IF mapHas(indexDocuments, id) THEN "true" ELSE "false",
              id |-> id]
  /\ UNCHANGED <<pc, now, disk, otherVars>>

Clear ==
  /\ SetIndex(clear(TheIndex))
  /\ ArrayAfter(TRUE, <<>>)
  /\ call' = [op |-> "clear", outcome |-> "returned", id |-> <<>>]
  /\ UNCHANGED <<pc, now, disk, otherVars>>

Save ==
  /\ disk' = save(TheIndex)
  /\ call' = [op |-> "save", outcome |-> "fulfilled", id |-> <<>>]
  /\ UNCHANGED <<pc, indexDocuments, indexNodes, allocated, now, searchArray, otherVars>>

\* load has run to its end with out
Loaded(out) ==
  /\ SetIndex(out.index)
  /\ ArrayAfter(disk.kind \in {"object", "entries"}, out.index.nodes)
  /\ call' = [op |-> "load", outcome |-> out.outcome, id |-> <<>>]
  /\ UNCHANGED <<pc, now, disk, otherVars>>

Load ==
  /\ allocated + Len(disk.entries) <= MaxTrees
  /\ Loaded(load(TheIndex, disk))

\* another program writes the file: a text that is no JSON, or the JSON
\* text of an object
FileOverwritten(kind) ==
  /\ disk' = [kind |-> kind, entries |-> <<>>]
  /\ UNCHANGED <<pc, indexDocuments, indexNodes, allocated, now, call, searchArray, otherVars>>

\* a millisecond passes
Tick ==
  /\ now < MaxNow
  /\ now' = now + 1
  /\ UNCHANGED <<pc, indexDocuments, indexNodes, allocated, disk, call, searchArray, otherVars>>

\* the ids removeDocument is called with: those of the entries, and one that
\* no document has
RemovableIds == {indexDocuments[i].key : i \in DOMAIN indexDocuments} \cup {<<"n","o","n","e">>}

IndexNext ==
  \/ \E c \in AddCalls : AddDocument(c[1], c[2])
  \/ \E sources \in SourceLists : AddDocuments(sources)
  \/ \E id \in RemovableIds : RemoveDocument(id)
  \/ Clear
  \/ Save
  \/ Load
  \/ \E kind \in {"garbage", "object"} : FileOverwritten(kind)
  \/ Tick

IndexSpec == Init /\ [][IndexNext]_vars

\* --------------------------------------------- searches of the index

\* the configuration the index is constructed with: a custom client
IndexProvider == [apiKey |-> Undefined, api |-> "undefined"]

\* a threshold of 0.9
Threshold == [num |-> 9, den |-> 10]

\* "second section" and "text ab"
IndexQueryStrings ==
  {<<"s","e","c","o","n","d"," ","s","e","c","t","i","o","n">>, <<"t","e","x","t"," ","a","b">>}

\* the queries of search; collection is absent or "docs"
IndexQueries ==
  [query : IndexQueryStrings, maxResults : {{}},
   threshold : {{}, {Threshold}},
   collection : {Undefined, <<"d","o","c","s">>}]

\* the ids an LLM may answer with: those of the nodes of the indexed trees
IndexedNodeIds ==
  UNION {{indexNodes[t].nodes[i].id : i \in DOMAIN indexNodes[t].nodes} :
           t \in DOMAIN indexNodes}

\* search(query): the forest is filtered, searchWithLLM builds the prompt of
\* it and awaits the custom client
IndexSearch(q) ==
  LET array == filteredNodes(TheIndex, q)
  IN /\ pc = "idle"
     /\ pc' = "awaiting"
     /\ searchArray' = array
     /\ documents' = Forest(array.refs)
     /\ query' = q
     /\ provider' = IndexProvider
     /\ customLLMClient' = TRUE
     /\ prompt' = buildSearchPrompt(q.query, buildSearchContext(Forest(array.refs)))
     /\ UNCHANGED <<llm, results, returned, settled>>
     /\ UNCHANGED <<indexDocuments, indexNodes, allocated, now, disk, call>>
     /\ UNCHANGED <<excerptVars, parseVars>>

\* the client settles as env says and searchWithLLM runs to its return, on
\* the array it was given as that array is by now
IndexSettle(env) ==
  LET out == searchWithLLM(Forest(searchArray.refs), query, provider,
                           customLLMClient, env)
  IN /\ pc = "awaiting"
     /\ pc' = "done"
     /\ llm' = LLMStep(env, callOpenClawLLM(provider, customLLMClient, env).invoked,
                        out.caught)
     /\ results' = out.results
     /\ returned' = out.value
     /\ settled' = out.settled
     /\ UNCHANGED <<documents, query, provider, customLLMClient, prompt>>
     /\ UNCHANGED <<indexVars, excerptVars, parseVars>>

\* the caller has the results
IndexReturn ==
  /\ pc = "done"
  /\ pc' = "idle"
  /\ documents' = <<>>
  /\ query' = NoQuery
  /\ provider' = NoProvider
  /\ customLLMClient' = FALSE
  /\ prompt' = NoPrompt
  /\ llm' = NoLLM
  /\ results' = <<>>
  /\ returned' = <<>>
  /\ settled' = "pending"
  /\ searchArray' = NoArray
  /\ UNCHANGED <<indexDocuments, indexNodes, allocated, now, disk, call>>
  /\ UNCHANGED <<excerptVars, parseVars>>

IndexSearchNext ==
  \/ \E c \in AddCalls : AddDocument(c[1], c[2])
  \/ \E id \in RemovableIds : RemoveDocument(id)
  \/ Clear
  \/ \E q \in IndexQueries : IndexSearch(q)
  \/ IndexSettle([kind |-> "rejects", text |-> <<>>])
  \/ \E id \in IndexedNodeIds : IndexSettle([kind |-> "text", text |-> id])
  \/ IndexReturn

IndexSearchSpec == Init /\ [][IndexSearchNext]_vars

\* ------------------------------------------------------------ properties

\* the nodes of the forest in pre-order
RECURSIVE PreOrder(_, _)
PreOrder(docs, refs) ==
  IF refs = <<>> THEN <<>>
  ELSE <<Head(refs)>> \o PreOrder(docs, children(docs, Head(refs)))
         \o PreOrder(docs, Tail(refs))

PreOrderNodes(docs) ==
  LET refs == PreOrder(docs, roots(docs))
  IN [k \in DOMAIN refs |-> NodeAt(docs, refs[k])]

\* the ways the LLM invocation rejects or throws
ThrowKinds == {"rejects", "missingApiKey", "unsupportedApi", "fetchRejects", "notOk"}

\* every failure class of the LLM step
FailureKinds == ThrowKinds \cup {"nonString"}

\* C1: when the LLM invocation of searchWithLLM rejects or throws (custom
\* client or vendor adapter), searchWithLLM returns exactly what fallbackSearch
\* returns for the same forest and query: same results, same order, same length.
C1_FallbackOnThrow ==
  (pc = "done" /\ llm.kind \in ThrowKinds)
    => returned = fallbackSearch(documents, query)

\* C1 witness: the custom client rejected and the call returned the keyword
\* results, several of them.
C1_Witness ==
  /\ pc = "done" /\ llm.kind = "rejects"
  /\ Len(returned) >= 2
  /\ returned[1].relevance.num = returned[1].relevance.den

\* C2: for every failure class of the LLM step (no apiKey and no custom client,
\* unsupported api type, a response that is not 2xx, a rejected fetch, a custom
\* client that throws or resolves to a non-string) the promise of searchWithLLM
\* is fulfilled, never rejected, with the result list of the keyword scorer.
C2_NeverRejects ==
  (pc = "done" /\ llm.kind \in FailureKinds)
    => /\ settled = "fulfilled"
       /\ returned = fallbackSearch(documents, query)

\* C2 witness: a custom client resolved to a non-string and the call was
\* fulfilled with keyword results.
C2_Witness ==
  /\ pc = "done" /\ llm.kind = "nonString"
  /\ settled = "fulfilled"
  /\ Len(returned) >= 1

\* C3 as stated: when the LLM call succeeds and yields no result (empty
\* response, no line with the prefix, or no identifier that resolves), the
\* search returns the keyword scorer's results for the same forest and query.
C3_EmptyLLMResultFallsBack ==
  (pc = "done" /\ llm.kind = "text" /\ results = <<>>)
    => returned = fallbackSearch(documents, query)

\* the cap the claim C4 states for the query
StatedCap(q) ==
  IF q.maxResults = {} THEN DefaultMaxResults ELSE CHOOSE m \in q.maxResults : TRUE

\* C4 as stated: on both paths the number of results is at most
\* query.maxResults when it is given (0 included) and at most 10 when absent.
C4_AtMostMaxResults ==
  pc = "done" => Len(returned) <= StatedCap(query)

\* the lines of a response that C5 says give a result: the trimmed text begins
\* with "node-" and is the id of a node of the forest
KeptLines(docs, response) ==
  LET all == PreOrderNodes(docs)
  IN SelectSeq(split(response, "\n"),
       LAMBDA line :
         /\ startsWith(trim(line), NodePrefix)
         /\ \E k \in DOMAIN all : all[k].id = trim(line))

\* C5: on the LLM path the result list, before the truncation to maxResults,
\* has one result per response line whose trimmed text begins with "node-" and
\* names a node of the forest, in response order; the other lines are dropped;
\* what is returned is the head of that list.
C5_ResultsFollowResponse ==
  (pc = "done" /\ llm.kind = "text")
    => LET kept == KeptLines(documents, llm.text)
           all == PreOrderNodes(documents)
       IN /\ Len(results) = Len(kept)
          /\ \A k \in DOMAIN kept :
               /\ results[k].citation.nodeId = trim(kept[k])
               /\ \E n \in DOMAIN all :
                    /\ all[n].id = trim(kept[k])
                    /\ all[n].content = results[k].content
          /\ Len(returned) <= Len(results)
          /\ returned = SubSeq(results, 1, Len(returned))

\* C5 witness: the response names the second paragraph of TextA (with white
\* space around it), then a line without the prefix, then a first paragraph;
\* two results, in that order.
C5_Witness ==
  /\ pc = "done" /\ llm.kind = "text"
  /\ llm.text = join(<<<<" "," ","n","o","d","e","-","p","a","r","a","g","r","a","p","h","-","1","1","-","7","\r">>,
                       <<"g","a","r","b","a","g","e">>,
                       <<"n","o","d","e","-","p","a","r","a","g","r","a","p","h","-","0","-","7">>>>, <<"\n">>)
  /\ documents = <<TreeB, TreeA>>
  /\ Len(results) = 2
  /\ results[1].citation.nodeId = <<"n","o","d","e","-","p","a","r","a","g","r","a","p","h","-","1","1","-","7">>
  /\ results[2].citation.nodeId = <<"n","o","d","e","-","p","a","r","a","g","r","a","p","h","-","0","-","7">>

\* the identifiers the serialized context shows: the text between "[ID: " and
\* the next "]"
EmittedIds(context) ==
  LET opens == {i \in DOMAIN context :
                  /\ i + Len(IdOpen) - 1 <= Len(context)
                  /\ SubSeq(context, i, i + Len(IdOpen) - 1) = IdOpen
                  /\ \E j \in (i + Len(IdOpen))..Len(context) : context[j] = "]"}
      idAt(i) ==
        LET from == i + Len(IdOpen)
            close == CHOOSE j \in from..Len(context) :
                       /\ context[j] = "]"
                       /\ \A m \in from..(j - 1) : context[m] # "]"
        IN SubSeq(context, from, close - 1)
  IN {idAt(i) : i \in opens}

\* C6 as stated: every identifier the context serializer emits for a forest
\* built by the parsers, root nodes included, is kept by the response parser
\* when returned as a response line (it begins with "node-") and resolves to
\* a node of the forest.
C6_EmittedIdsRoundTrip ==
  pc = "awaiting"
    => \A id \in EmittedIds(prompt.content) :
         /\ startsWith(id, NodePrefix)
         /\ parseLLMResponse(id) = <<id>>
         /\ findNodeById(documents, roots(documents), id) # Null

\* the keyword tokens of a query: query.toLowerCase().split(/\s+/) gives an
\* empty token for leading or trailing white space and for the empty query
Tokens(q) == splitWhiteSpace(toLowerCase(q.query))

\* the positions of the tokens that occur in the lower-cased content
TokenHits(q, content) ==
  {t \in DOMAIN Tokens(q) : includes(toLowerCase(content), Tokens(q)[t])}

\* C7 as stated: the relevance of a returned node is the number of distinct
\* query keywords that occur in its lower-cased content, divided by the total
\* number of keyword tokens, also for a query that repeats a word.
C7_DistinctKeywordFraction ==
  pc = "done"
    => \A k \in DOMAIN returned :
         /\ returned[k].relevance.den = Len(Tokens(query))
         /\ returned[k].relevance.num =
              Cardinality({Tokens(query)[t] : t \in TokenHits(query, returned[k].content)})

\* C7 amended: the relevance of a returned node is the number of keyword
\* tokens of the query, a repeated word counted each time it is written, that
\* occur as a substring of the node's lower-cased content, divided by the total
\* number of keyword tokens; it lies in (0, 1].
C7_MatchedTokenFraction ==
  pc = "done"
    => \A k \in DOMAIN returned :
         /\ returned[k].relevance.den = Len(Tokens(query))
         /\ returned[k].relevance.num = Cardinality(TokenHits(query, returned[k].content))
         /\ 0 < returned[k].relevance.num
         /\ returned[k].relevance.num <= returned[k].relevance.den

\* C7 witness: the query "section section second" returns the node "section"
\* with relevance 2/3.
C7_Witness ==
  /\ pc = "done"
  /\ query.query = <<"s","e","c","t","i","o","n"," ","s","e","c","t","i","o","n"," ","s","e","c","o","n","d">>
  /\ \E k \in DOMAIN returned :
       /\ returned[k].content = <<"s","e","c","t","i","o","n">>
       /\ returned[k].relevance = [num |-> 2, den |-> 3]

\* the white-space delimited words of the lower-cased query
Words(q) == {Tokens(q)[t] : t \in DOMAIN Tokens(q)} \ {<<>>}

\* C8 as stated: a node is returned only if its lower-cased content contains
\* at least one white-space delimited word of the lower-cased query, also with
\* leading or trailing white space in the query; an empty or all-white-space
\* query (no word at all) returns nothing.
C8_OnlyNodesWithAQueryWord ==
  pc = "done"
    => \A k \in DOMAIN returned :
         \E w \in Words(query) : includes(toLowerCase(returned[k].content), w)

\* what identifies a result or a node when the two are compared
ResultKey(r) ==
  [id |-> r.citation.nodeId, content |-> r.content, position |-> r.citation.position]

NodeKey(n) == [id |-> n.id, content |-> n.content, position |-> n.metadata.position]

\* a is b with some elements left out
RECURSIVE IsSubsequence(_, _)
IsSubsequence(a, b) ==
  IF a = <<>> THEN TRUE
  ELSE IF b = <<>> THEN FALSE
  ELSE IF Head(a) = Head(b) THEN IsSubsequence(Tail(a), Tail(b))
  ELSE IsSubsequence(a, Tail(b))

\* C9: the results of the keyword scorer are in non-increasing relevance, and
\* the results of one relevance are in the order of the pre-order scan of the
\* forest.
C9_SortedAndStable ==
  pc = "done"
    => /\ \A i, j \in DOMAIN returned :
            i < j => compareRelevance(returned[i], returned[j]) <= 0
       /\ \A n \in 1..Len(Tokens(query)) :
            LET tied == SelectSeq(returned, LAMBDA r : r.relevance.num = n)
                scan == PreOrderNodes(documents)
            IN IsSubsequence([k \in DOMAIN tied |-> ResultKey(tied[k])],
                             [k \in DOMAIN scan |-> NodeKey(scan[k])])

\* C9 witness: in the forest TreeB, TreeA the query "second section" gives four
\* results of relevance 2/2 in scan order, then the node "section" (1/2) that
\* the scan met second.
C9_Witness ==
  /\ pc = "done"
  /\ documents = <<TreeB, TreeA>>
  /\ query = [query |-> <<"s","e","c","o","n","d"," ","s","e","c","t","i","o","n">>, maxResults |-> {}]
  /\ Len(returned) = 5
  /\ returned[2].citation.nodeId = <<"n","o","d","e","-","p","a","r","a","g","r","a","p","h","-","1","4","-","7">>
  /\ returned[4].citation.nodeId = <<"n","o","d","e","-","p","a","r","a","g","r","a","p","h","-","1","1","-","7">>
  /\ returned[5].content = <<"s","e","c","t","i","o","n">>
  /\ returned[4].relevance = [num |-> 2, den |-> 2]
  /\ returned[5].relevance = [num |-> 1, den |-> 2]

\* C10: the excerpt is the content unchanged when its length is at most 200;
\* otherwise it is a prefix of the content of at most 200 characters followed
\* by "...", so its length is at most 203.
C10_ExcerptBounded ==
  pc = "done"
    => /\ Len(node) <= ExcerptCap => excerpt = node
       /\ Len(node) > ExcerptCap =>
            /\ Len(excerpt) <= ExcerptCap + Len(Ellipsis)
            /\ \E k \in 0..ExcerptCap : excerpt = SubSeq(node, 1, k) \o Ellipsis

\* C10 witness: a content of more than 200 characters with a space after its
\* 200th character and none before: the excerpt is the first 200 characters
\* and "...".
C10_Witness ==
  /\ pc = "done"
  /\ Len(node) > ExcerptCap + 1
  /\ node[ExcerptCap + 2] = " "
  /\ \A i \in 1..(ExcerptCap + 1) : node[i] # " "
  /\ Len(excerpt) = ExcerptCap + Len(Ellipsis)

\* the 0-based positions up to the cap that hold a space, a tab or a newline
BreakPositions(content) ==
  {i \in 0..Min(ExcerptCap, Len(content) - 1) : content[i + 1] \in {" ", "\t", "\n"}}

\* C11 as stated: a content longer than 200 characters is cut at the last
\* white-space character (space, tab or newline) at or before the cap whenever
\* there is one in that range; the hard cut at the cap is used only when the
\* range holds no white space at all.
C11_CutAtLastWhiteSpace ==
  (pc = "done" /\ Len(node) > ExcerptCap)
    => LET breaks == BreakPositions(node)
           cut == IF breaks = {} THEN ExcerptCap
                  ELSE CHOOSE i \in breaks : \A j \in breaks : i >= j
       IN excerpt = SubSeq(node, 1, cut) \o Ellipsis

\* the paragraphs of a tree, in order
Paragraphs(tree) == SelectSeq(tree, LAMBDA n : n.type = "paragraph")

\* the content holds every word of the query
HasAllWords(q, content) ==
  \A w \in Words(q) : includes(toLowerCase(content), w)

\* C12 as stated: the keyword search for a two-word query over a parsed
\* two-paragraph document in which only the second paragraph holds both words
\* returns exactly one result, and that result has relevance 1.0.
C12_OneResultForSecondParagraph ==
  (/\ pc = "done"
   /\ Len(documents) = 1
   /\ Len(Paragraphs(documents[1])) = 2
   /\ Len(Tokens(query)) = 2 /\ Cardinality(Words(query)) = 2
   /\ ~HasAllWords(query, Paragraphs(documents[1])[1].content)
   /\ HasAllWords(query, Paragraphs(documents[1])[2].content))
    => /\ Len(returned) = 1
       /\ returned[1].relevance.num = returned[1].relevance.den

\* the headings of a parsed tree, as indices into its node list (which is in
\* document order)
Headings(nodes) == {i \in DOMAIN nodes : nodes[i].type = "section"}

\* the largest element of a set of indices, or the root when it is empty
LastOrRoot(S) == IF S = {} THEN 1 ELSE CHOOSE i \in S : \A j \in S : i >= j

\* the titles (headings) or contents (paragraphs) of the children of node i
ChildLabels(nodes, i) ==
  LET kids == childrenFrom(nodes, i, 1)
  IN [k \in DOMAIN kids |->
        IF nodes[kids[k]].type = "section" THEN nodes[kids[k]].title
        ELSE nodes[kids[k]].content]

\* the index of the heading with that title
HeadingTitled(nodes, title) ==
  CHOOSE i \in Headings(nodes) : nodes[i].title = title

\* C13: in Markdown parsing a heading of level L becomes a child of the
\* nearest preceding heading of level strictly less than L, or of the root
\* when there is none, and the text accumulated before a heading (or the end)
\* becomes a paragraph child of the heading that was last pushed; the example
\* "# A / text1 / ## B / text2 / # C / text3" gives root children A and C, B
\* under A, and one paragraph under each of A, B and C with its text.
C13_HeadingsNestByLevel ==
  (pc = "done" /\ parsing.ext = ".md")
    => /\ \A i \in Headings(parsed) :
            parsed[i].parent =
              LastOrRoot({j \in Headings(parsed) :
                            j < i /\ parsed[j].level < parsed[i].level})
       /\ \A p \in DOMAIN parsed :
            parsed[p].type = "paragraph"
              => parsed[p].parent = LastOrRoot({j \in Headings(parsed) : j < p})
       /\ parsing.text = ExampleMd
            => /\ ChildLabels(parsed, 1) = << <<"A">>, <<"C">> >>
               /\ ChildLabels(parsed, HeadingTitled(parsed, <<"A">>))
                    = << <<"t","e","x","t","1">>, <<"B">> >>
               /\ ChildLabels(parsed, HeadingTitled(parsed, <<"B">>))
                    = << <<"t","e","x","t","2">> >>
               /\ ChildLabels(parsed, HeadingTitled(parsed, <<"C">>))
                    = << <<"t","e","x","t","3">> >>

\* the example of C13 has been parsed
C13_Witness ==
  /\ pc = "done"
  /\ parsing.text = ExampleMd
  /\ Cardinality(Headings(parsed)) = 3
  /\ Len(parsed) = 7

\* the positions of the form feeds of a text, with both ends
FormFeedCuts(text) ==
  {0, Len(text) + 1} \cup {i \in DOMAIN text : text[i] = "\f"}

\* the slices the form feeds delimit, with their 1-based rank, white-space
\* only slices left out: [page, text] in order of page
MarkerSlices(text) ==
  LET cuts == FormFeedCuts(text)
      rank(c) == Cardinality({d \in cuts : d <= c})
      slice(c) == SubSeq(text, c + 1, (CHOOSE d \in cuts : d > c /\ rank(d) = rank(c) + 1) - 1)
  IN {[page |-> rank(c), text |-> trim(slice(c))] :
        c \in {c \in cuts : c <= Len(text) /\ trim(slice(c)) # <<>>}}

\* C14: when the extracted text of a PDF holds a form feed, the sections are
\* the slices the form feeds delimit, whatever the reported page count and
\* whatever chapter headings the text holds.
C14_FormFeedFirst ==
  (pc = "done" /\ parsing.ext = ".pdf" /\ "\f" \in Range(parsing.text))
    => {[page |-> CHOOSE n \in parsed[i].pageNumber : TRUE, text |-> parsed[i].content] :
          i \in 2..Len(parsed)} = MarkerSlices(parsing.text)
       /\ Len(parsed) - 1 = Cardinality(MarkerSlices(parsing.text))
       /\ \A i \in 2..Len(parsed) : parsed[i].parent = 1 /\ parsed[i].type = "section"

\* a text with a form feed and a chapter heading was parsed with a page
\* count above one, into two sections or more
C14_Witness ==
  /\ pc = "done" /\ parsing.ext = ".pdf"
  /\ "\f" \in Range(parsing.text)
  /\ parsing.numpages \in {{2}, {3}}
  /\ \E p \in DOMAIN parsing.text : matchEnd(parsing.text, p, 2) # 0
  /\ Len(parsed) >= 3

\* C15: when addDocument fails because reading or parsing the source throws,
\* the call rejects and the index is unchanged: this.documents and this.nodes
\* are what they were before the call, so no entry and no tree of the failed
\* document was added.
C15_FailedAddLeavesIndex ==
  [][((\E c \in AddCalls : AddDocument(c[1], c[2])
         /\ parseDocument(c[1], c[2], Files[c[1]], now).threw)
      => /\ call'.outcome = "rejected"
         /\ indexDocuments' = indexDocuments
         /\ indexNodes' = indexNodes)]_vars

\* addDocument was rejected on an index that holds a document
C15_Witness ==
  /\ call.op = "addDocument" /\ call.outcome = "rejected"
  /\ Len(indexDocuments) >= 1 /\ Len(indexNodes) >= 1

\* the tree objects of the entries whose source contains the collection
\* string, in the order of this.nodes
TreesOfCollection(collection) ==
  SelectSeq(indexNodes,
            LAMBDA n : \E e \in DOMAIN indexDocuments :
                         /\ indexDocuments[e].value.tree.ref = n.ref
                         /\ includes(indexDocuments[e].value.source, collection))

\* C16 as stated: search with query.collection set searches exactly the
\* trees of the indexed documents whose source contains the collection
\* string, so that a matching node of such a document can be returned and
\* no node of another document is.
C16_CollectionSelectsBySource ==
  [][(\E q \in IndexQueries : IndexSearch(q) /\ Truthy(q.collection))
       => documents' = Forest(TreesOfCollection(query'.collection))]_vars

\* a is at least b, for two fractions
AtLeast(a, b) == a.num * b.den >= b.num * a.den

\* C17 as stated: when query.threshold is given, every result search returns
\* has a relevance of the threshold or more, on the LLM path and on the
\* keyword path.
C17_ResultsReachThreshold ==
  (pc = "done" /\ query.threshold # {})
    => \A k \in DOMAIN returned :
         \A th \in query.threshold : AtLeast(returned[k].relevance, th)

\* every tree the search ran on is still the tree of an entry of the index
SearchedTreesIndexed ==
  \A k \in DOMAIN searchArray.refs :
    \E e \in DOMAIN indexDocuments :
      indexDocuments[e].value.tree.ref = searchArray.refs[k].ref

\* C18 as stated: for every result of search, getDocument of
\* citation.documentId gives the indexed document whose tree holds the node
\* with the id citation.nodeId.
C18_DocumentIdNamesOwner ==
  (pc = "done" /\ SearchedTreesIndexed)
    => \A k \in DOMAIN returned :
         \E doc \in getDocument(TheIndex, returned[k].citation.documentId) :
           \E i \in DOMAIN doc.tree.nodes :
             doc.tree.nodes[i].id = returned[k].citation.nodeId

\* C19 as stated: for every result, citation.documentTitle is the title of
\* the root of the tree that holds the cited node when that root has a title,
\* and "Unknown Document" only when it has none.
C19_TitleOfTheRoot ==
  pc = "done"
    => \A k \in DOMAIN returned :
         \E t \in DOMAIN documents : \E i \in DOMAIN documents[t] :
           /\ documents[t][i].id = returned[k].citation.nodeId
           /\ documents[t][i].content = returned[k].content
           /\ returned[k].citation.documentTitle =
                IF documents[t][1].type = "root" /\ Truthy(documents[t][1].title)
                  THEN documents[t][1].title
                  ELSE UnknownDocument

\* C20 as stated: after any sequence of addDocument, addDocuments,
\* removeDocument, clear and load calls, one of which may add a document
\* whose generated id is that of an indexed document, this.nodes holds
\* exactly one tree per entry of this.documents, the tree of that entry, and
\* no tree of a removed, replaced or cleared document.
C20_OneTreePerEntry ==
  /\ Len(indexNodes) = Len(indexDocuments)
  /\ \A e \in DOMAIN indexDocuments :
       Cardinality({k \in DOMAIN indexNodes :
                      indexNodes[k].ref = indexDocuments[e].value.tree.ref}) = 1
  /\ \A k \in DOMAIN indexNodes :
       \E e \in DOMAIN indexDocuments :
         indexDocuments[e].value.tree.ref = indexNodes[k].ref

\* C21 as stated: a search uses one consistent forest. When the pending LLM
\* call settles, the trees the returned identifiers are resolved against,
\* or the keyword fallback runs over, are the trees that were serialized
\* into the prompt when search was called, whatever addDocument,
\* removeDocument or clear did in between.
C21_OneConsistentForest ==
  [][(pc = "awaiting" /\ pc' = "done")
       => Forest(searchArray.refs) = documents]_vars

\* the three vendor adapters
VendorAdapters == {"callAnthropic", "callOpenAI", "callGoogle"}

\* the ways an invocation of the LLM fails
InvocationFailed == {"rejects", "fetchRejects", "notOk"}

C23_LoadReplacesOrLeaves ==
  [][Load
       => IF call'.outcome = "fulfilled"
            THEN /\ stringify(indexDocuments') = disk.entries
                 /\ Forest(indexNodes')
                      = [i \in DOMAIN disk.entries |-> disk.entries[i].value.tree]
                 /\ \A k \in DOMAIN indexNodes' :
                      \A j \in DOMAIN indexNodes : indexNodes'[k].ref # indexNodes[j].ref
            ELSE /\ call'.outcome = "rejected"
                 /\ indexDocuments' = indexDocuments
                 /\ indexNodes' = indexNodes]_vars

\* C24 as stated: in the page-count strategy of parsePDF (no form feed in
\* the text, a page count n above 1) the text is cut into exactly n slices
\* of equal length whose concatenation in order is the whole text, so that
\* every character belongs to exactly one slice.
C24_PageCountPartition ==
  (pc = "done" /\ parsing.ext = ".pdf" /\ ~includes(parsing.text, <<"\f">>))
    => \A n \in parsing.numpages :
         n > 1
           => LET slices == pageTextsOf(parsing.text, n)
              IN /\ Len(slices) = n
                 /\ \A i, j \in DOMAIN slices : Len(slices[i]) = Len(slices[j])
                 /\ concat(slices) = parsing.text

\* C25: within the tree of a single parse (Markdown, HTML, plain text or
\* PDF) no two nodes have the same id, whatever the input and whether or not
\* the clock read for the ids changes during the parse.
C25_IdsUniqueInATree ==
  pc = "done"
    => \A i, j \in DOMAIN parsed : parsed[i].id = parsed[j].id => i = j

\* a parse during which the clock changed gave a tree of three nodes or
\* more, two of them with ids of different milliseconds
C25_Witness ==
  /\ pc = "done" /\ parsing.ext \in {".md", ".html", ".txt"}
  /\ Len(parsed) >= 3
  /\ Len(parsing.clock) >= 2 /\ parsing.clock[1] # parsing.clock[2]
  /\ parsed[2].id[Len(parsed[2].id)] # parsed[3].id[Len(parsed[3].id)]

\* C26: in every tree of the four parsers, metadata.position never
\* decreases along the pre-order traversal, which starts at the root with
\* position 0 and visits the nodes in the order in which they stand in the
\* source, the order in which the parser made them.
C26_PositionFollowsPreOrder ==
  pc = "done"
    => /\ PreOrder(<<parsed>>, roots(<<parsed>>))
            = [k \in DOMAIN parsed |-> [t |-> 1, i |-> k]]
       /\ PreOrderNodes(<<parsed>>)[1].metadata.position = 0
       /\ \A k \in 1..(Len(parsed) - 1) :
            PreOrderNodes(<<parsed>>)[k].metadata.position
              <= PreOrderNodes(<<parsed>>)[k + 1].metadata.position

\* a Markdown tree with a paragraph under a nested heading and a heading
\* after it that hangs from the root
C26_Witness ==
  /\ pc = "done" /\ parsing.ext = ".md" /\ Len(parsed) >= 5
  /\ \E i, j, k \in DOMAIN parsed :
       /\ i < j /\ j < k
       /\ parsed[i].type = "section" /\ parsed[i].parent > 1
       /\ parsed[j].type = "paragraph" /\ parsed[j].parent = i
       /\ parsed[k].type = "section" /\ parsed[k].parent = 1
       /\ parsed[k].metadata.position > parsed[j].metadata.position

====
